---- MODULE Spec2Model ----
(***************************************************************************)
(* Model of the Esp32FeederController firmware: the per-feeder state       *)
(* machine (Feeder.cpp), its manager and Gcode handlers (FeederManager),   *)
(* the PCA9685 / MCP23017 drivers and the reply formatting of GCodeServer. *)
(*                                                                         *)
(* Handlers run on the worker threads of one asio::io_context.  A handler, *)
(* a timer completion or a poll is one action; the only place a handler    *)
(* stays across actions is the sleep loop of wait_for_feeder.              *)
(***************************************************************************)
EXTENDS Integers, Sequences, FiniteSets, TLC

(***************************************************************************)
(* Bounds of the model.                                                    *)
(***************************************************************************)
\* PCA9685 (and MCP23017) chips that answer the bus scan: 0..MaxDrivers.
MaxDrivers == 1
\* Feeders 0..MaxActive-1 receive commands, timer completions and sensor
\* changes; the other feeders stay as construction left them.
MaxActive == 1
\* Largest D argument of M610 (below the uint8_t wrap at 256).
MaxDistance == 3
\* Runs of even moves use the distances 0, 2, .., 2 * MaxHalfSteps.
MaxHalfSteps == 4
\* Most completion handlers of one feeder posted to the io_context at once.
MaxPosted == 1
\* Worker threads running the io_context (chip cores * 2).
MaxWorkers == 2

(***************************************************************************)
(* Program constants.                                                      *)
(***************************************************************************)
NUM_CHANNELS == 16
MAX_PWM_COUNTS == 4096
MAX_PCA9685_COUNT == 8
MAX_MCP23017_COUNT == 8
MAX_FEEDER_COUNT == MAX_PCA9685_COUNT * NUM_CHANNELS
FEEDER_MECHANICAL_ADVANCE_LENGTH == 4

DEFAULT_FEEDER_FULL_ADVANCE_ANGLE == 90
DEFAULT_FEEDER_RETRACT_ANGLE == 15
DEFAULT_FEEDER_SETTLE_TIME_MS == 240
DEFAULT_FEEDER_MIN_PULSE_COUNT == 150
DEFAULT_FEEDER_MAX_PULSE_COUNT == 600

\* feeder_status_t
FEEDER_DISABLED == 0
FEEDER_IDLE == 1
FEEDER_MOVING == 2

\* feeder_position_t
POSITION_UNKNOWN == 0
POSITION_ADVANCED_FULL == 1
POSITION_ADVANCED_HALF == 2
POSITION_RETRACTED == 3

COMMAND_OK == "ok"
COMMAND_ERROR == "error"

FEEDER_MOVE_CMD == "M610"
FEEDER_POST_PICK_CMD == "M611"
FEEDER_STATUS_CMD == "M612"
FEEDER_CONFIGURE_CMD == "M613"
FEEDER_ENABLE_CMD == "M614"
FEEDER_DISABLE_CMD == "M615"

\* asio::error_code values a system_timer hands to its wait handler
EC_SUCCESS == "success"
EC_ABORTED == "operation_aborted"

\* the two handlers Feeder binds to timer_.async_wait
H_UPDATE == "update"
H_SERVO == "servo_movement_complete"
NoTimer == "none"

Completions == {H_UPDATE, H_SERVO} \X {EC_SUCCESS, EC_ABORTED}
NoPosted == [c \in Completions |-> 0]
PostedCount(q) ==
    q[<<H_UPDATE, EC_SUCCESS>>] + q[<<H_UPDATE, EC_ABORTED>>]
    + q[<<H_SERVO, EC_SUCCESS>>] + q[<<H_SERVO, EC_ABORTED>>]

\* fixed-width conversions
ToUint8(v) == v % 256
ToUint16(v) == v % 65536
ToInt8(v) == IF v % 256 >= 128 THEN (v % 256) - 256 ELSE v % 256
ToInt16(v) == IF v % 65536 >= 32768 THEN (v % 65536) - 65536 ELSE v % 65536
\* std::size_t has 32 bits on the target; the model checker's integers end at
\* 2^31 - 1, so the wrap of a size_t is taken modulo 2^31: a difference below
\* zero still becomes a huge positive value
ToSizeT(v) == IF v < 0 THEN (v + 2147483647) + 1 ELSE v

Min(a, b) == IF a < b THEN a ELSE b
Max(a, b) == IF a > b THEN a ELSE b

(***************************************************************************)
(* PCA9685: one output channel's ON/OFF register pair.                     *)
(***************************************************************************)
\* register pair of a channel nothing has been written to since power-up
RegReset == [full_on |-> 0, full_off |-> 0, on_counts |-> 0, off_counts |-> 0]

\* PCA9685::set_pwm: the register pair written for (channel, count)
set_pwm(channel, count) ==
    IF count >= MAX_PWM_COUNTS
    THEN [full_on |-> 1, full_off |-> 0, on_counts |-> 0, off_counts |-> 0]
    ELSE IF count = 0
    THEN [full_on |-> 0, full_off |-> 1, on_counts |-> 0, off_counts |-> 0]
    ELSE [full_on |-> 0, full_off |-> 0,
          on_counts |-> channel * 256,
          off_counts |-> (count + (channel * 256)) % 4096]

\* PCA9685::off
off(channel) == set_pwm(channel, MAX_PWM_COUNTS)

\* PCA9685::set_servo_angle with min_servo_angle = 0, max_servo_angle = 180
PCA9685_set_servo_angle(channel, angle, min_pulse_count, max_pulse_count) ==
    LET pulse_count_range == ToUint16(max_pulse_count - min_pulse_count)
        target_angle == Max(Min(angle, 180), 0)
        pulse_count ==
            ToUint16(((pulse_count_range * target_angle) \div 180) + min_pulse_count)
    IN set_pwm(channel, pulse_count)

(***************************************************************************)
(* Feeder.  The operators work on a context X of one feeder:               *)
(*   X.fd   the Feeder object (its fields, timer_ included)                *)
(*   X.q    the completion handlers of timer_ posted to the io_context     *)
(*   X.reg  the PCA9685 register pair of the feeder's channel              *)
(*   X.ch   channel_                                                       *)
(*   X.nvs  what the "esp32feeder" namespace holds under nvskey_           *)
(***************************************************************************)

\* the configuration Feeder::initialize builds when no usable blob is stored
DefaultConfig(has_mcp) ==
    [feed_length |-> FEEDER_MECHANICAL_ADVANCE_LENGTH,
     settle_time_ms |-> DEFAULT_FEEDER_SETTLE_TIME_MS,
     servo_full_angle |-> DEFAULT_FEEDER_FULL_ADVANCE_ANGLE,
     servo_half_angle |-> DEFAULT_FEEDER_FULL_ADVANCE_ANGLE \div 2,
     servo_retract_angle |-> DEFAULT_FEEDER_RETRACT_ANGLE,
     servo_min_pulse |-> DEFAULT_FEEDER_MIN_PULSE_COUNT,
     servo_max_pulse |-> DEFAULT_FEEDER_MAX_PULSE_COUNT,
     ignore_feedback |-> IF has_mcp THEN 0 ELSE 1,
     movement_degrees |-> 0,
     movement_interval_ms |-> 0]

\* the Feeder object as its constructor and member initialisers leave it
NewFeeder(id, uuid, pca9685, channel, has_mcp) ==
    [id_ |-> id,
     uuid_ |-> uuid,
     pca9685_ |-> pca9685,
     channel_ |-> channel,
     has_mcp |-> has_mcp,
     tensioned_ |-> TRUE,
     advance_ |-> FALSE,
     config_ |-> DefaultConfig(has_mcp),
     status_ |-> FEEDER_DISABLED,
     position_ |-> POSITION_UNKNOWN,
     targetDegrees_ |-> 0,
     currentDegrees_ |-> 0,
     movement_ |-> 0,
     timer_ |-> NoTimer]

\* variant: a feeder that counts as enabled whatever its status
is_enabled_whatever(fd) == TRUE

is_enabled(fd) == fd.status_ # FEEDER_DISABLED

is_moving(fd) == fd.status_ = FEEDER_MOVING

is_busy(fd) == (~is_enabled(fd)) /\ fd.status_ # FEEDER_IDLE

\* variant: the feedback sensor is never consulted
is_tensioned_unchecked(fd) == TRUE

\* variant: the sensor level is returned whatever ignore_feedback says
is_tensioned_sensor_only(fd) == fd.tensioned_

is_tensioned(fd) ==
    IF fd.config_.ignore_feedback # 0 THEN TRUE ELSE fd.tensioned_

\* timer_.expires_from_now(..); timer_.async_wait(handler): a wait still
\* pending is cancelled, its handler is posted with operation_aborted
timer_arm(X, handler) ==
    LET c == <<X.fd.timer_, EC_ABORTED>>
        q1 == IF X.fd.timer_ # NoTimer
              THEN [X.q EXCEPT ![c] = @ + 1]
              ELSE X.q
    IN [X EXCEPT !.q = q1, !.fd.timer_ = handler]

\* variant of the stepping code: a step of movement_degrees is taken whenever
\* the target has not been reached, in 8-bit arithmetic
step_degrees_unclamped(currentDegrees, targetDegrees, movement_degrees) ==
    IF targetDegrees < currentDegrees
    THEN ToUint8(currentDegrees - movement_degrees)
    ELSE IF targetDegrees > currentDegrees
    THEN ToUint8(currentDegrees + movement_degrees)
    ELSE targetDegrees

\* the next angle of an incremental movement (both copies of the stepping
\* code in set_servo_angle and servo_movement_complete)
step_degrees(currentDegrees, targetDegrees, movement_degrees) ==
    IF targetDegrees < currentDegrees
       /\ (currentDegrees - movement_degrees) > targetDegrees
    THEN ToUint8(currentDegrees - movement_degrees)
    ELSE IF targetDegrees > currentDegrees
            /\ (currentDegrees + movement_degrees) < targetDegrees
    THEN ToUint8(currentDegrees + movement_degrees)
    ELSE targetDegrees

\* the tail shared by set_servo_angle and servo_movement_complete: write the
\* angle to the chip, then wait for the next step or for the settle time
command_and_wait(X, degrees) ==
    LET c == X.fd.config_
        X1 == [X EXCEPT
                 !.fd.currentDegrees_ = degrees,
                 !.reg = PCA9685_set_servo_angle(X.ch, degrees,
                                                 c.servo_min_pulse,
                                                 c.servo_max_pulse)]
    IN IF degrees # X.fd.targetDegrees_
       THEN timer_arm(X1, H_SERVO)
       ELSE timer_arm(X1, H_UPDATE)

\* Feeder::set_servo_angle
set_servo_angle(X, angle) ==
    LET X1 == [X EXCEPT !.fd.targetDegrees_ = angle]
        md == X.fd.config_.movement_degrees
    IN IF md # 0
       THEN command_and_wait(X1, step_degrees(X.fd.currentDegrees_, angle, md))
       ELSE command_and_wait(X1, angle)

\* Feeder::retract_locked
retract_locked(X) ==
    set_servo_angle([X EXCEPT !.fd.status_ = FEEDER_MOVING,
                              !.fd.position_ = POSITION_RETRACTED],
                    X.fd.config_.servo_retract_angle)

\* variant of move_locked: a fully advanced feeder advances again (to the half
\* position) without retracting first
move_locked_without_retract(X) ==
    LET fd == X.fd
        half == FEEDER_MECHANICAL_ADVANCE_LENGTH \div 2
    IN IF fd.position_ = POSITION_RETRACTED
       THEN IF fd.movement_ >= FEEDER_MECHANICAL_ADVANCE_LENGTH
            THEN set_servo_angle(
                   [X EXCEPT !.fd.position_ = POSITION_ADVANCED_FULL,
                             !.fd.movement_ =
                                 ToSizeT(@ - FEEDER_MECHANICAL_ADVANCE_LENGTH)],
                   fd.config_.servo_full_angle)
            ELSE IF fd.movement_ >= half
            THEN set_servo_angle(
                   [X EXCEPT !.fd.position_ = POSITION_ADVANCED_HALF,
                             !.fd.movement_ = ToSizeT(@ - half)],
                   fd.config_.servo_half_angle)
            ELSE X
       ELSE IF fd.movement_ >= half
       THEN set_servo_angle(
              [X EXCEPT !.fd.position_ =
                            IF fd.position_ = POSITION_ADVANCED_HALF
                            THEN POSITION_ADVANCED_FULL
                            ELSE POSITION_ADVANCED_HALF,
                        !.fd.movement_ = ToSizeT(@ - half)],
              IF fd.position_ = POSITION_ADVANCED_HALF
              THEN fd.config_.servo_full_angle
              ELSE fd.config_.servo_half_angle)
       ELSE X

\* Feeder::move_locked
move_locked(X) ==
    LET fd == X.fd
        half == FEEDER_MECHANICAL_ADVANCE_LENGTH \div 2
    IN IF fd.position_ = POSITION_RETRACTED
       THEN IF fd.movement_ >= FEEDER_MECHANICAL_ADVANCE_LENGTH
            THEN set_servo_angle(
                   [X EXCEPT !.fd.position_ = POSITION_ADVANCED_FULL,
                             !.fd.movement_ =
                                 ToSizeT(@ - FEEDER_MECHANICAL_ADVANCE_LENGTH)],
                   fd.config_.servo_full_angle)
            ELSE IF fd.movement_ >= half
            THEN set_servo_angle(
                   [X EXCEPT !.fd.position_ = POSITION_ADVANCED_HALF,
                             !.fd.movement_ = ToSizeT(@ - half)],
                   fd.config_.servo_half_angle)
            ELSE X
       ELSE IF fd.position_ = POSITION_ADVANCED_HALF
       THEN IF fd.movement_ >= half
            THEN set_servo_angle(
                   [X EXCEPT !.fd.position_ = POSITION_ADVANCED_FULL,
                             !.fd.movement_ = ToSizeT(@ - half)],
                   fd.config_.servo_full_angle)
            ELSE X
       ELSE IF fd.position_ = POSITION_ADVANCED_FULL
       THEN retract_locked(X)
       ELSE X

\* variant of move: a feeder that is moving accepts the call as well
move_while_moving(X, distance) ==
    [ok |-> TRUE,
     X |-> move_locked(
             [X EXCEPT !.fd.movement_ =
                           IF distance = 0
                           THEN X.fd.config_.feed_length
                           ELSE distance,
                       !.fd.status_ = FEEDER_MOVING])]

\* Feeder::move: [ok |-> the return value, X |-> the context after the call]
move(X, distance) ==
    IF is_moving(X.fd)
    THEN [ok |-> FALSE, X |-> X]
    ELSE [ok |-> TRUE,
          X |-> move_locked(
                  [X EXCEPT !.fd.movement_ =
                                IF distance = 0
                                THEN X.fd.config_.feed_length
                                ELSE distance,
                            !.fd.status_ = FEEDER_MOVING])]

\* Feeder::post_pick
post_pick(X) ==
    IF ~is_enabled(X.fd)
    THEN [ok |-> FALSE, X |-> X]
    ELSE IF X.fd.position_ # POSITION_RETRACTED
    THEN [ok |-> TRUE, X |-> retract_locked(X)]
    ELSE [ok |-> TRUE, X |-> X]

\* Feeder::enable
enable(X) == [ok |-> TRUE, X |-> [X EXCEPT !.fd.status_ = FEEDER_IDLE]]

\* Feeder::disable
disable(X) == [ok |-> TRUE, X |-> [X EXCEPT !.fd.status_ = FEEDER_DISABLED]]

\* Feeder::status
status(fd) ==
    FEEDER_STATUS_CMD
    \o " N" \o ToString(fd.id_)
    \o " A" \o ToString(fd.config_.servo_full_angle)
    \o " B" \o ToString(fd.config_.servo_half_angle)
    \o " C" \o ToString(fd.config_.servo_retract_angle)
    \o " D" \o ToString(fd.config_.movement_degrees)
    \o " F" \o ToString(fd.config_.feed_length)
    \o " S" \o ToString(fd.config_.movement_interval_ms)
    \o " U" \o ToString(fd.config_.settle_time_ms)
    \o " V" \o ToString(fd.config_.servo_min_pulse)
    \o " W" \o ToString(fd.config_.servo_max_pulse)
    \o " X" \o ToString(fd.position_)
    \o " Y" \o ToString(fd.status_)
    \o " Z" \o ToString(fd.config_.ignore_feedback)

\* variant of update: the settle time ends the move whatever distance remains
update_without_continuation(X, error) ==
    IF error # EC_SUCCESS /\ error # EC_ABORTED
    THEN X
    ELSE IF is_enabled(X.fd)
    THEN [X EXCEPT !.reg = off(X.ch), !.fd.status_ = FEEDER_IDLE]
    ELSE X

\* Feeder::update
update(X, error) ==
    IF error # EC_SUCCESS /\ error # EC_ABORTED
    THEN X
    ELSE IF is_enabled(X.fd) /\ is_moving(X.fd) /\ X.fd.movement_ > 0
    THEN move_locked(X)
    ELSE IF is_enabled(X.fd)
    THEN [X EXCEPT !.reg = off(X.ch), !.fd.status_ = FEEDER_IDLE]
    ELSE X

\* Feeder::servo_movement_complete
servo_movement_complete(X, error) ==
    IF error # EC_SUCCESS /\ error # EC_ABORTED
    THEN X
    ELSE command_and_wait(X, step_degrees(X.fd.currentDegrees_,
                                          X.fd.targetDegrees_,
                                          X.fd.config_.movement_degrees))

\* variant of feedback_state_changed: a tensioned level starts the move
\* whether or not advance_ is set
feedback_state_changed_unarmed(X, state) ==
    LET X1 == [X EXCEPT !.fd.tensioned_ = state]
    IN IF ~is_busy(X1.fd)
       THEN IF ~X1.fd.tensioned_
            THEN [X |-> [X1 EXCEPT !.fd.advance_ = TRUE],
                  called |-> FALSE, ok |-> FALSE]
            ELSE LET r == move(X1, 0)
                 IN [X |-> [r.X EXCEPT !.fd.advance_ = FALSE],
                     called |-> TRUE, ok |-> r.ok]
       ELSE [X |-> [X1 EXCEPT !.fd.advance_ = FALSE],
             called |-> FALSE, ok |-> FALSE]

\* Feeder::feedback_state_changed:
\* [X, called: whether move() was called, ok: what it returned]
feedback_state_changed(X, state) ==
    LET X1 == [X EXCEPT !.fd.tensioned_ = state]
    IN IF ~is_busy(X1.fd)
       THEN IF ~X1.fd.tensioned_
            THEN [X |-> [X1 EXCEPT !.fd.advance_ = TRUE],
                  called |-> FALSE, ok |-> FALSE]
            ELSE IF X1.fd.advance_
            THEN LET r == move(X1, 0)
                 IN [X |-> [r.X EXCEPT !.fd.advance_ = FALSE],
                     called |-> TRUE, ok |-> r.ok]
            ELSE [X |-> X1, called |-> FALSE, ok |-> FALSE]
       ELSE [X |-> [X1 EXCEPT !.fd.advance_ = FALSE],
             called |-> FALSE, ok |-> FALSE]

\* sizeof(feeder_config_t): the members at their natural alignment, and the
\* offset just past each member
configsize_ == 140
FieldEnd ==
    [feed_length |-> 1,
     settle_time_ms |-> 4,
     servo_full_angle |-> 5,
     servo_half_angle |-> 6,
     servo_retract_angle |-> 7,
     servo_min_pulse |-> 10,
     servo_max_pulse |-> 12,
     ignore_feedback |-> 13,
     movement_degrees |-> 14,
     movement_interval_ms |-> 16]

\* memset(&config_, 0, configsize_)
ZeroConfig == [n \in DOMAIN FieldEnd |-> 0]

ESP_OK == "ESP_OK"
ESP_ERR_NVS_NOT_FOUND == "ESP_ERR_NVS_NOT_FOUND"
ESP_ERR_NVS_INVALID_LENGTH == "ESP_ERR_NVS_INVALID_LENGTH"

\* what the namespace holds under the feeder's key: nothing, or a blob of
\* size bytes whose leading bytes read as the members of config
NoBlob == [size |-> 0]
Blob(config) == [size |-> configsize_, config |-> config]

\* nvs_get_blob(nvs, key, &config_, &config_size) with config_size set to
\* length on entry: a blob that fits is copied over the start of the buffer
\* and its size is returned in config_size; one that does not fit is not
\* copied
nvs_get_blob(blob, config, length) ==
    IF blob.size = 0
    THEN [res |-> ESP_ERR_NVS_NOT_FOUND, config |-> config, length |-> length]
    ELSE IF length < blob.size
    THEN [res |-> ESP_ERR_NVS_INVALID_LENGTH, config |-> config,
          length |-> blob.size]
    ELSE [res |-> ESP_OK,
          config |-> [n \in DOMAIN FieldEnd |->
                        IF FieldEnd[n] <= blob.size
                        THEN blob.config[n] ELSE config[n]],
          length |-> blob.size]

\* Feeder::initialize, the rebuild branch: the members it assigns
rebuild(config, has_mcp) ==
    [config EXCEPT
       !.feed_length = FEEDER_MECHANICAL_ADVANCE_LENGTH,
       !.settle_time_ms = DEFAULT_FEEDER_SETTLE_TIME_MS,
       !.movement_interval_ms = 0,
       !.servo_full_angle = DEFAULT_FEEDER_FULL_ADVANCE_ANGLE,
       !.servo_half_angle = DEFAULT_FEEDER_FULL_ADVANCE_ANGLE \div 2,
       !.servo_retract_angle = DEFAULT_FEEDER_RETRACT_ANGLE,
       !.servo_min_pulse = DEFAULT_FEEDER_MIN_PULSE_COUNT,
       !.servo_max_pulse = DEFAULT_FEEDER_MAX_PULSE_COUNT,
       !.ignore_feedback = IF ~has_mcp THEN 1 ELSE @]

\* Feeder::initialize: whether the stored blob is rejected and rebuilt
rebuilds(blob) ==
    LET r == nvs_get_blob(blob, ZeroConfig, configsize_)
    IN r.length # configsize_ \/ r.res # ESP_OK

\* Feeder::initialize up to the retract: the configuration in use
load_config(fd, blob) ==
    LET r == nvs_get_blob(blob, ZeroConfig, configsize_)
    IN IF rebuilds(blob) THEN rebuild(r.config, fd.has_mcp) ELSE r.config

\* Feeder::initialize: whether it subscribes to its MCP23017 channel
subscribes(fd) == fd.has_mcp /\ fd.config_.ignore_feedback = 0

\* Feeder::initialize
initialize(X, blob) ==
    LET config == load_config(X.fd, blob)
    IN retract_locked([X EXCEPT !.fd.config_ = config,
                                !.nvs = IF rebuilds(blob)
                                        THEN Blob(config) ELSE blob])

\* variant of configure: accepting a settle time does not ask for the write
configure_unsaved_settle(X, p) ==
    LET advance_angle == ToUint8(p.advance_angle)
        half_advance_angle == ToUint8(p.half_advance_angle)
        retract_angle == ToUint8(p.retract_angle)
        feed_length == ToUint8(p.feed_length)
        settle_time_ms == ToUint16(p.settle_time_ms)
        min_pulse == ToUint8(p.min_pulse)
        max_pulse == ToUint8(p.max_pulse)   \* assigned to nothing
        ignore_feedback == ToInt8(p.ignore_feedback)
        movement_speed_ms == ToInt16(p.movement_speed_ms)
        movement_degrees == ToUint8(p.movement_degrees)
        config ==
            [X.fd.config_ EXCEPT
               !.servo_full_angle =
                   IF advance_angle # 0 THEN advance_angle ELSE @,
               !.servo_half_angle =
                   IF half_advance_angle # 0 THEN half_advance_angle ELSE @,
               !.servo_retract_angle =
                   IF retract_angle # 0 THEN retract_angle ELSE @,
               !.feed_length =
                   IF feed_length # 0 /\ feed_length % 2 = 0
                   THEN feed_length ELSE @,
               !.settle_time_ms =
                   IF settle_time_ms # 0 THEN settle_time_ms ELSE @,
               !.servo_min_pulse = IF min_pulse # 0 THEN min_pulse ELSE @,
               !.ignore_feedback =
                   IF ignore_feedback >= 0 THEN ignore_feedback ELSE @,
               !.movement_interval_ms =
                   IF movement_speed_ms >= 0 THEN movement_speed_ms ELSE @,
               !.movement_degrees =
                   IF movement_degrees # 0 THEN movement_degrees ELSE @]
        need_persist ==
            \/ advance_angle # 0
            \/ half_advance_angle # 0
            \/ retract_angle # 0
            \/ (feed_length # 0 /\ feed_length % 2 = 0)
            \/ min_pulse # 0
            \/ ignore_feedback >= 0
            \/ movement_speed_ms >= 0
            \/ movement_degrees # 0
    IN [X |-> [X EXCEPT !.fd.config_ = config,
                        !.nvs = IF need_persist THEN Blob(config) ELSE @],
        need_persist |-> need_persist]

\* variant of configure: a feed length is accepted whatever its parity
configure_any_length(X, p) ==
    LET advance_angle == ToUint8(p.advance_angle)
        half_advance_angle == ToUint8(p.half_advance_angle)
        retract_angle == ToUint8(p.retract_angle)
        feed_length == ToUint8(p.feed_length)
        settle_time_ms == ToUint16(p.settle_time_ms)
        min_pulse == ToUint8(p.min_pulse)
        max_pulse == ToUint8(p.max_pulse)   \* assigned to nothing
        ignore_feedback == ToInt8(p.ignore_feedback)
        movement_speed_ms == ToInt16(p.movement_speed_ms)
        movement_degrees == ToUint8(p.movement_degrees)
        config ==
            [X.fd.config_ EXCEPT
               !.servo_full_angle =
                   IF advance_angle # 0 THEN advance_angle ELSE @,
               !.servo_half_angle =
                   IF half_advance_angle # 0 THEN half_advance_angle ELSE @,
               !.servo_retract_angle =
                   IF retract_angle # 0 THEN retract_angle ELSE @,
               !.feed_length =
                   IF feed_length # 0 THEN feed_length ELSE @,
               !.settle_time_ms =
                   IF settle_time_ms # 0 THEN settle_time_ms ELSE @,
               !.servo_min_pulse = IF min_pulse # 0 THEN min_pulse ELSE @,
               !.ignore_feedback =
                   IF ignore_feedback >= 0 THEN ignore_feedback ELSE @,
               !.movement_interval_ms =
                   IF movement_speed_ms >= 0 THEN movement_speed_ms ELSE @,
               !.movement_degrees =
                   IF movement_degrees # 0 THEN movement_degrees ELSE @]
        need_persist ==
            \/ advance_angle # 0
            \/ half_advance_angle # 0
            \/ retract_angle # 0
            \/ feed_length # 0
            \/ settle_time_ms # 0
            \/ min_pulse # 0
            \/ ignore_feedback >= 0
            \/ movement_speed_ms >= 0
            \/ movement_degrees # 0
    IN [X |-> [X EXCEPT !.fd.config_ = config,
                        !.nvs = IF need_persist THEN Blob(config) ELSE @],
        need_persist |-> need_persist]

\* Feeder::configure; p holds the arguments of the call, converted here to the
\* parameter types: [X |-> the context after, need_persist |-> whether the
\* configuration was written to storage]
configure(X, p) ==
    LET advance_angle == ToUint8(p.advance_angle)
        half_advance_angle == ToUint8(p.half_advance_angle)
        retract_angle == ToUint8(p.retract_angle)
        feed_length == ToUint8(p.feed_length)
        settle_time_ms == ToUint16(p.settle_time_ms)
        min_pulse == ToUint8(p.min_pulse)
        max_pulse == ToUint8(p.max_pulse)   \* assigned to nothing
        ignore_feedback == ToInt8(p.ignore_feedback)
        movement_speed_ms == ToInt16(p.movement_speed_ms)
        movement_degrees == ToUint8(p.movement_degrees)
        config ==
            [X.fd.config_ EXCEPT
               !.servo_full_angle =
                   IF advance_angle # 0 THEN advance_angle ELSE @,
               !.servo_half_angle =
                   IF half_advance_angle # 0 THEN half_advance_angle ELSE @,
               !.servo_retract_angle =
                   IF retract_angle # 0 THEN retract_angle ELSE @,
               !.feed_length =
                   IF feed_length # 0 /\ feed_length % 2 = 0
                   THEN feed_length ELSE @,
               !.settle_time_ms =
                   IF settle_time_ms # 0 THEN settle_time_ms ELSE @,
               !.servo_min_pulse = IF min_pulse # 0 THEN min_pulse ELSE @,
               !.ignore_feedback =
                   IF ignore_feedback >= 0 THEN ignore_feedback ELSE @,
               !.movement_interval_ms =
                   IF movement_speed_ms >= 0 THEN movement_speed_ms ELSE @,
               !.movement_degrees =
                   IF movement_degrees # 0 THEN movement_degrees ELSE @]
        need_persist ==
            \/ advance_angle # 0
            \/ half_advance_angle # 0
            \/ retract_angle # 0
            \/ (feed_length # 0 /\ feed_length % 2 = 0)
            \/ settle_time_ms # 0
            \/ min_pulse # 0
            \/ ignore_feedback >= 0
            \/ movement_speed_ms >= 0
            \/ movement_degrees # 0
    IN [X |-> [X EXCEPT !.fd.config_ = config,
                        !.nvs = IF need_persist THEN Blob(config) ELSE @],
        need_persist |-> need_persist]

(***************************************************************************)
(* State.                                                                  *)
(***************************************************************************)
VARIABLES
    feeders_,     \* FeederManager::feeders_: index -> Feeder object
    posted,       \* per feeder: completions of its timer_ posted, not yet run
    pca9685_,     \* FeederManager::pca9685_: chip -> channel -> register pair
    mcp23017_,    \* FeederManager::mcp23017_: chip -> state_ and callbacks_
    waiters,      \* per feeder: worker threads inside wait_for_feeder(feeder)
    auto_enable,  \* the build's AUTO_ENABLE_FEEDERS
    nvs,          \* per feeder: the blob stored under its key
    mgr_cfg,      \* the blob stored under NVS_FEEDER_MGR_CFG_KEY
    enabled,      \* feeders enable() ran on since construction or the last
                  \* disable() (history)
    mux_,         \* per feeder: the worker thread that holds Feeder::mux_,
                  \* 0 when it is unlocked
    pc,           \* per worker thread: the Feeder method it is inside and
                  \* the statement it executes next
    client,       \* a GCodeClient: its socket, streambuf_ and outgoing_
    last          \* what the most recent handler did (history)

vars == <<feeders_, posted, pca9685_, mcp23017_, waiters, auto_enable, nvs,
          mgr_cfg, enabled, mux_, pc, client, last>>

\* feeders_.size()
FeederCount == Cardinality(DOMAIN feeders_)

\* the feeders commands, completions and sensor changes are directed at
ActiveFeeders == {f \in DOMAIN feeders_ : f < MaxActive}

\* blobs an earlier run can have left under a feeder's key
StoredStep == 30

\* no connection: nothing sent by a peer, nothing buffered, no read pending
NoClient ==
    [lines |-> <<>>, wire |-> <<>>, streambuf_ |-> <<>>, reading |-> FALSE,
     outgoing_ |-> <<>>, sent |-> <<>>, fault |-> FALSE]

\* a worker thread that is inside no method of a Feeder
Returned == [op |-> "", at |-> 0, f |-> 0, arg |-> 0]

\* worker threads asleep in wait_for_feeder
BusyWorkers ==
    Cardinality({w \in (DOMAIN waiters) \X (1 .. MaxWorkers) :
                    w[2] <= waiters[w[1]]})
WorkerFree == BusyWorkers < MaxWorkers

\* the context of feeder f: driver index f / 16, channel f % 16
Ctx(f) ==
    [fd |-> feeders_[f],
     q |-> posted[f],
     reg |-> pca9685_[feeders_[f].pca9685_][feeders_[f].channel_],
     ch |-> feeders_[f].channel_,
     nvs |-> nvs[f]]

\* the parts of a feeder's context that differ between X and Y
Delta(X, Y) ==
    {n \in {"status_", "position_", "movement_", "targetDegrees_",
            "currentDegrees_", "tensioned_", "advance_", "config_", "timer_"} :
        X.fd[n] # Y.fd[n]}
    \cup (IF X.q # Y.q THEN {"posted"} ELSE {})
    \cup (IF X.reg # Y.reg THEN {"pwm"} ELSE {})
    \cup (IF X.nvs # Y.nvs THEN {"nvs"} ELSE {})

\* the parts move(), the movement steps and the timer act on
Motion == {"status_", "position_", "movement_", "targetDegrees_",
           "currentDegrees_", "timer_", "posted", "pwm"}

NoFeeder == 0 - 1
NoStatus == 0 - 1
NoReply == "<none>"

NoArgs == [x \in {} |-> 0]

\* the history record: the handler that ran last (cmd), the N it was given
\* (n), the feeder it operated on (f), that feeder's status when it started
\* (pre), the Feeder methods it called, what it returned and replied, the
\* parts of the feeder it changed (delta), and, for a timer completion, the
\* error code it was delivered with; for M613, the arguments of the line
Nothing ==
    [cmd |-> "none", n |-> NoFeeder, f |-> NoFeeder, oob |-> FALSE,
     pre |-> NoStatus, calls |-> {}, ok |-> FALSE, reply |-> NoReply,
     delta |-> {}, err |-> EC_SUCCESS, args |-> NoArgs]

(***************************************************************************)
(* Construction: FeederManager::FeederManager.                             *)
(***************************************************************************)
\* variant of the constructor's loop body: the channel is taken modulo half
\* the channels of a chip
Constructed_half_chip(idx, uuid, num_mcp, blob, auto) ==
    LET expander_index == idx \div NUM_CHANNELS
        expander_channel == idx % (NUM_CHANNELS \div 2)
        has_mcp == num_mcp > expander_index
        X0 == [fd |-> NewFeeder(idx, uuid, expander_index, expander_channel,
                                has_mcp),
               q |-> NoPosted, reg |-> RegReset, ch |-> expander_channel,
               nvs |-> blob]
        X1 == initialize(X0, blob)
    IN IF auto THEN enable(X1).X ELSE X1

\* feeder idx as the constructor's loop body leaves it
Constructed(idx, uuid, num_mcp, blob, auto) ==
    LET expander_index == idx \div NUM_CHANNELS
        expander_channel == idx % NUM_CHANNELS
        has_mcp == num_mcp > expander_index
        X0 == [fd |-> NewFeeder(idx, uuid, expander_index, expander_channel,
                                has_mcp),
               q |-> NoPosted, reg |-> RegReset, ch |-> expander_channel,
               nvs |-> blob]
        X1 == initialize(X0, blob)
    IN IF auto THEN enable(X1).X ELSE X1

\* the manager's record as the constructor uses it: the one found in storage
\* if it has the size of feeder_manager_config_t; otherwise a zeroed one into
\* which esp_fill_random has written MAX_FEEDER_COUNT bytes, the 32-bit words
\* the generator delivers being seed, seed + 1, ..
manager_config(stored, seed) ==
    IF stored.size = 4 * MAX_FEEDER_COUNT
    THEN stored
    ELSE [size |-> 4 * MAX_FEEDER_COUNT,
          feeder_uuid |-> [idx \in 0 .. MAX_FEEDER_COUNT - 1 |->
                             IF (4 * idx) + 3 < MAX_FEEDER_COUNT
                             THEN seed + idx ELSE 0]]

\* the state the constructor leaves, given the chips detected, the build
\* flag, the levels of the first poll of each MCP23017, the blob stored under
\* the key of each feeder and the manager's record.  The feeders are
\* constructed in the order of idx: one whose key an earlier feeder has
\* finds the blob as that feeder's initialize left it
Boot(num_pca, num_mcp, auto, levels, blobs, config) ==
    LET count == Min(MAX_FEEDER_COUNT, num_pca * NUM_CHANNELS)
        uuid == config.feeder_uuid
        first == [idx \in 0 .. count - 1 |->
                    CHOOSE j \in 0 .. idx :
                        /\ uuid[j] = uuid[idx]
                        /\ \A k \in 0 .. j - 1 : uuid[k] # uuid[idx]]
        X0 == [idx \in 0 .. count - 1 |->
                 Constructed(idx, uuid[idx], num_mcp, blobs[idx], auto)]
        X == [idx \in 0 .. count - 1 |->
                IF first[idx] = idx THEN X0[idx]
                ELSE Constructed(idx, uuid[idx], num_mcp, X0[first[idx]].nvs,
                                 auto)]
    IN [feeders_ |-> [idx \in 0 .. count - 1 |-> X[idx].fd],
        mgr_cfg |-> config,
        posted |-> [idx \in 0 .. count - 1 |-> X[idx].q],
        pca9685_ |-> [d \in 0 .. num_pca - 1 |->
                        [c \in 0 .. NUM_CHANNELS - 1 |->
                            X[d * NUM_CHANNELS + c].reg]],
        mcp23017_ |-> [e \in 0 .. num_mcp - 1 |->
                         [state_ |-> levels[e],
                          callbacks_ |->
                             {c \in 0 .. NUM_CHANNELS - 1 :
                                 /\ e * NUM_CHANNELS + c < count
                                 /\ subscribes(X[e * NUM_CHANNELS + c].fd)}]],
        waiters |-> [idx \in 0 .. count - 1 |-> 0],
        nvs |-> [idx \in 0 .. count - 1 |-> X[idx].nvs],
        enabled |-> IF auto THEN 0 .. count - 1 ELSE {}]

\* the variables take the values of the record b, the history is l
Booted(b, auto, l, c) ==
    /\ feeders_ = b.feeders_
    /\ posted = b.posted
    /\ pca9685_ = b.pca9685_
    /\ mcp23017_ = b.mcp23017_
    /\ waiters = b.waiters
    /\ auto_enable = auto
    /\ nvs = b.nvs
    /\ mgr_cfg = b.mgr_cfg
    /\ enabled = b.enabled
    /\ mux_ = [idx \in DOMAIN b.feeders_ |-> 0]
    /\ pc = [t \in 1 .. MaxWorkers |-> Returned]
    /\ client = c
    /\ last = l

\* the sensor channels of the active feeders read level, the others high
Levels(num_mcp, level) ==
    [e \in 0 .. num_mcp - 1 |->
        [c \in 0 .. NUM_CHANNELS - 1 |->
            IF e * NUM_CHANNELS + c < MaxActive THEN level ELSE TRUE]]

Init ==
    \E num_pca \in 0 .. Min(MaxDrivers, MAX_PCA9685_COUNT),
       num_mcp \in 0 .. Min(MaxDrivers, MAX_MCP23017_COUNT),
       auto \in BOOLEAN, stored \in BOOLEAN, level \in BOOLEAN :
        LET blobs == [idx \in 0 .. MAX_FEEDER_COUNT - 1 |->
                IF stored /\ idx < MaxActive
                THEN Blob([DefaultConfig(num_mcp > idx \div NUM_CHANNELS)
                             EXCEPT !.movement_degrees = StoredStep])
                ELSE NoBlob]
        IN Booted(Boot(num_pca, num_mcp, auto, Levels(num_mcp, level), blobs,
                       manager_config(NoBlob, 1)),
                  auto, Nothing, NoClient)

(***************************************************************************)
(* FeederManager: the Gcode handlers.  The arguments of a command are a    *)
(* function letter -> the integer std::stoi reads after the letter; a      *)
(* handler yields the set of its possible outcomes (one, unless it indexes *)
(* feeders_ out of bounds):                                                *)
(*   ok, msg   the command_return_type                                     *)
(*   f, X      the feeder it operated on and that feeder's context after   *)
(*   calls     the Feeder methods it called                                *)
(*   wait      it goes on into wait_for_feeder(f)                          *)
(*   oob       it indexed feeders_ past its end; fault: and was aborted    *)
(***************************************************************************)
\* FeederManager::extract_arg<uint8_t>: value = std::stoi(..) narrows to T
extract_arg(arg_letter, args) ==
    IF arg_letter \in DOMAIN args
    THEN [found |-> TRUE, value |-> ToUint8(args[arg_letter])]
    ELSE [found |-> FALSE, value |-> ToUint8(0 - 1)]

\* FeederManager::extract_arg<T>: T names the type of the variable, value is
\* what the variable holds when the letter is absent
extract_arg_to(arg_letter, args, T, value) ==
    IF arg_letter \in DOMAIN args
    THEN [found |-> TRUE,
          value |-> CASE T = "uint16_t" -> ToUint16(args[arg_letter])
                      [] T = "int16_t" -> ToInt16(args[arg_letter])
                      [] T = "int8_t" -> ToInt8(args[arg_letter])
                      [] OTHER -> ToUint8(args[arg_letter])]
    ELSE [found |-> FALSE, value |-> value]

Ret(ok, msg) ==
    [ok |-> ok, msg |-> msg, f |-> NoFeeder, X |-> <<>>, calls |-> {},
     wait |-> FALSE, oob |-> FALSE, fault |-> FALSE]

On(f, ok, msg, X, calls, wait) ==
    [ok |-> ok, msg |-> msg, f |-> f, X |-> X, calls |-> calls,
     wait |-> wait, oob |-> FALSE, fault |-> FALSE]

\* feeders_[feeder] with feeder == feeders_.size(): the read past the end of
\* the vector is undefined; the handler is aborted by the fault, or goes on
\* with whatever it read and returns any of its results
OutOfBounds(returns) ==
    {[Ret(r[1], r[2]) EXCEPT !.oob = TRUE] : r \in returns}
    \cup {[Ret(FALSE, "") EXCEPT !.oob = TRUE, !.fault = TRUE]}

InvalidId == "Missing/invalid feeder ID"
NotEnabled == "Feeder has not been enabled!"
Busy == "Feeder is busy!"
NotTensioned == "Tape cover does not appear to be tensioned correctly!"
ReportedError == "Feeder reported an error!"

\* FeederManager::feeder_move
feeder_move(args) ==
    LET d == extract_arg("D", args)
        distance == IF d.found THEN d.value ELSE 0
        n == extract_arg("N", args)
        feeder == n.value
    IN IF ~n.found \/ feeder > FeederCount
       THEN {Ret(FALSE, InvalidId)}
       ELSE IF feeder \notin DOMAIN feeders_
       THEN OutOfBounds({<<FALSE, NotEnabled>>, <<FALSE, Busy>>,
                         <<FALSE, NotTensioned>>, <<FALSE, ReportedError>>,
                         <<TRUE, "">>})
       ELSE LET X == Ctx(feeder)
                r == move(X, distance)
            IN IF ~is_enabled(X.fd)
               THEN {On(feeder, FALSE, NotEnabled, X, {"is_enabled"}, FALSE)}
               ELSE IF is_busy(X.fd)
               THEN {On(feeder, FALSE, Busy, X,
                        {"is_enabled", "is_busy"}, FALSE)}
               ELSE IF ~is_tensioned(X.fd)
               THEN {On(feeder, FALSE, NotTensioned, X,
                        {"is_enabled", "is_busy", "is_tensioned"}, FALSE)}
               ELSE IF ~r.ok
               THEN {On(feeder, FALSE, ReportedError, r.X,
                        {"is_enabled", "is_busy", "is_tensioned", "move"},
                        FALSE)}
               ELSE {On(feeder, TRUE, "", r.X,
                        {"is_enabled", "is_busy", "is_tensioned", "move"},
                        TRUE)}

\* FeederManager::feeder_post_pick
feeder_post_pick(args) ==
    LET n == extract_arg("N", args)
        feeder == n.value
    IN IF ~n.found \/ feeder > FeederCount
       THEN {Ret(FALSE, InvalidId)}
       ELSE IF feeder \notin DOMAIN feeders_
       THEN OutOfBounds({<<FALSE, NotEnabled>>, <<FALSE, Busy>>,
                         <<FALSE, ReportedError>>, <<TRUE, "">>})
       ELSE LET X == Ctx(feeder)
                r == post_pick(X)
            IN IF ~is_enabled(X.fd)
               THEN {On(feeder, FALSE, NotEnabled, X, {"is_enabled"}, FALSE)}
               ELSE IF is_busy(X.fd)
               THEN {On(feeder, FALSE, Busy, X,
                        {"is_enabled", "is_busy"}, FALSE)}
               ELSE IF ~r.ok
               THEN {On(feeder, FALSE, ReportedError, r.X,
                        {"is_enabled", "is_busy", "post_pick"}, FALSE)}
               ELSE {On(feeder, TRUE, "", r.X,
                        {"is_enabled", "is_busy", "post_pick"}, TRUE)}

\* FeederManager::feeder_status
feeder_status(args) ==
    LET n == extract_arg("N", args)
        feeder == n.value
    IN IF ~n.found \/ feeder > FeederCount
       THEN {Ret(FALSE, InvalidId)}
       ELSE IF feeder \notin DOMAIN feeders_
       THEN OutOfBounds({<<TRUE, "">>})
       ELSE {On(feeder, TRUE, status(feeders_[feeder]), Ctx(feeder),
                {"status"}, FALSE)}

\* FeederManager::feeder_enable
feeder_enable(args) ==
    LET n == extract_arg("N", args)
        feeder == n.value
    IN IF ~n.found \/ feeder > FeederCount
       THEN {Ret(FALSE, InvalidId)}
       ELSE IF feeder \notin DOMAIN feeders_
       THEN OutOfBounds({<<TRUE, "">>, <<FALSE, "Feeder reported an error">>})
       ELSE LET r == enable(Ctx(feeder))
            IN IF r.ok
               THEN {On(feeder, TRUE, "", r.X, {"enable"}, FALSE)}
               ELSE {On(feeder, FALSE, "Feeder reported an error", r.X,
                        {"enable"}, FALSE)}

\* FeederManager::feeder_disable
feeder_disable(args) ==
    LET n == extract_arg("N", args)
        feeder == n.value
    IN IF ~n.found \/ feeder > FeederCount
       THEN {Ret(FALSE, InvalidId)}
       ELSE IF feeder \notin DOMAIN feeders_
       THEN OutOfBounds({<<TRUE, "">>, <<FALSE, "Feeder reported an error">>})
       ELSE LET r == disable(Ctx(feeder))
            IN IF r.ok
               THEN {On(feeder, TRUE, "", r.X, {"disable"}, FALSE)}
               ELSE {On(feeder, FALSE, "Feeder reported an error", r.X,
                        {"disable"}, FALSE)}

OddFeedLength == "Feed length must be a multiple of 2."

\* variant of feeder_configure: the parity of F is not looked at
feeder_configure_any_length(args) ==
    LET n == extract_arg("N", args)
        feeder == n.value
        feed_length == extract_arg_to("F", args, "uint16_t", 0)
        p == [advance_angle |-> extract_arg_to("A", args, "int16_t", 0).value,
              half_advance_angle |->
                  extract_arg_to("B", args, "int16_t", 0).value,
              retract_angle |-> extract_arg_to("C", args, "int16_t", 0).value,
              feed_length |-> feed_length.value,
              settle_time_ms |-> extract_arg_to("U", args, "uint16_t", 0).value,
              min_pulse |-> extract_arg_to("V", args, "uint16_t", 0).value,
              max_pulse |-> extract_arg_to("W", args, "uint16_t", 0).value,
              ignore_feedback |->
                  extract_arg_to("Z", args, "int8_t", 0 - 1).value,
              movement_speed_ms |->
                  extract_arg_to("S", args, "int16_t", 0 - 1).value,
              movement_degrees |->
                  extract_arg_to("D", args, "uint16_t", 0).value]
    IN IF ~n.found \/ feeder > FeederCount
       THEN {Ret(FALSE, InvalidId)}
       ELSE IF feeder \notin DOMAIN feeders_
       THEN OutOfBounds({<<TRUE, "">>})
       ELSE LET r == configure(Ctx(feeder), p)
            IN {On(feeder, TRUE, status(r.X.fd), r.X,
                   IF r.need_persist
                   THEN {"configure", "nvs_set_blob"} ELSE {"configure"},
                   FALSE)}

\* FeederManager::feeder_configure
feeder_configure(args) ==
    LET n == extract_arg("N", args)
        feeder == n.value
        feed_length == extract_arg_to("F", args, "uint16_t", 0)
        p == [advance_angle |-> extract_arg_to("A", args, "int16_t", 0).value,
              half_advance_angle |->
                  extract_arg_to("B", args, "int16_t", 0).value,
              retract_angle |-> extract_arg_to("C", args, "int16_t", 0).value,
              feed_length |-> feed_length.value,
              settle_time_ms |-> extract_arg_to("U", args, "uint16_t", 0).value,
              min_pulse |-> extract_arg_to("V", args, "uint16_t", 0).value,
              max_pulse |-> extract_arg_to("W", args, "uint16_t", 0).value,
              ignore_feedback |->
                  extract_arg_to("Z", args, "int8_t", 0 - 1).value,
              movement_speed_ms |->
                  extract_arg_to("S", args, "int16_t", 0 - 1).value,
              movement_degrees |->
                  extract_arg_to("D", args, "uint16_t", 0).value]
    IN IF ~n.found \/ feeder > FeederCount
       THEN {Ret(FALSE, InvalidId)}
       ELSE IF feed_length.found /\ feed_length.value % 2 # 0
       THEN {Ret(FALSE, OddFeedLength)}
       ELSE IF feeder \notin DOMAIN feeders_
       THEN OutOfBounds({<<TRUE, "">>})
       ELSE LET r == configure(Ctx(feeder), p)
            IN {On(feeder, TRUE, status(r.X.fd), r.X,
                   IF r.need_persist
                   THEN {"configure", "nvs_set_blob"} ELSE {"configure"},
                   FALSE)}

\* GCodeClient::process_line: the reply line of a dispatched command
Reply(ok, msg) ==
    (IF ok THEN COMMAND_OK ELSE COMMAND_ERROR) \o " " \o msg \o "\n"

(***************************************************************************)
(* Actions.                                                                *)
(***************************************************************************)

\* N arguments of a well-addressed command: the active feeders
NArgs == 0 .. MaxActive - 1
DArgs == 0 .. MaxDistance

MoveArgs ==
    {[N |-> n] : n \in NArgs} \cup {[N |-> n, D |-> d] : n \in NArgs, d \in DArgs}
IdArgs == {[N |-> n] : n \in NArgs}

\* N arguments of any command line: none, the active feeders, feeders_.size(),
\* one past it, and values at and beyond the range of uint8_t
AnyN == (0 .. MaxActive - 1) \cup {FeederCount, FeederCount + 1, 255, 256}
AnyArgs == {NoArgs} \cup {[N |-> n] : n \in AnyN}

\* even D arguments
EvenArgs == {[N |-> n, D |-> 2 * k] : n \in NArgs, k \in 0 .. MaxHalfSteps}

\* nothing of feeder f's timer is outstanding: no wait pending, no completion
\* posted
Quiescent(f) ==
    /\ feeders_[f].timer_ = NoTimer
    /\ posted[f] = NoPosted

\* variant of the register write: the value goes to the registers of every
\* channel of the chip
Store_whole_chip(f, X) ==
    /\ PostedCount(X.q) <= MaxPosted
    /\ feeders_' = [feeders_ EXCEPT ![f] = X.fd]
    /\ posted' = [posted EXCEPT ![f] = X.q]
    /\ pca9685_' = [pca9685_ EXCEPT
                      ![X.fd.pca9685_] = [c \in DOMAIN @ |-> X.reg]]
    /\ nvs' = [g \in DOMAIN nvs |->
                IF feeders_[g].uuid_ = X.fd.uuid_ THEN X.nvs ELSE nvs[g]]

\* the context X of feeder f becomes the state; what it wrote under its key
\* is what every feeder with that key finds there
Store(f, X) ==
    /\ PostedCount(X.q) <= MaxPosted
    /\ feeders_' = [feeders_ EXCEPT ![f] = X.fd]
    /\ posted' = [posted EXCEPT ![f] = X.q]
    /\ pca9685_' = [pca9685_ EXCEPT ![X.fd.pca9685_][X.ch] = X.reg]
    /\ nvs' = [g \in DOMAIN nvs |->
                IF feeders_[g].uuid_ = X.fd.uuid_ THEN X.nvs ELSE nvs[g]]

\* a worker thread runs the handler of one command line to its return, or
\* into wait_for_feeder
Handle(cmd, args, r) ==
    /\ WorkerFree
    /\ IF r.f # NoFeeder
       THEN /\ Store(r.f, r.X)
            /\ waiters' = IF r.wait
                          THEN [waiters EXCEPT ![r.f] = @ + 1]
                          ELSE waiters
            /\ enabled' = IF "enable" \in r.calls THEN enabled \cup {r.f}
                          ELSE IF "disable" \in r.calls THEN enabled \ {r.f}
                          ELSE enabled
       ELSE UNCHANGED <<feeders_, posted, pca9685_, nvs, waiters, enabled>>
    /\ last' = [cmd |-> cmd,
                n |-> IF "N" \in DOMAIN args THEN args.N ELSE NoFeeder,
                f |-> r.f, oob |-> r.oob,
                pre |-> IF r.f # NoFeeder
                        THEN feeders_[r.f].status_ ELSE NoStatus,
                calls |-> r.calls, ok |-> r.ok,
                reply |-> IF r.fault \/ r.wait
                          THEN NoReply ELSE Reply(r.ok, r.msg),
                delta |-> IF r.f # NoFeeder
                          THEN Delta(Ctx(r.f), r.X) ELSE {},
                err |-> EC_SUCCESS,
                args |-> IF cmd = FEEDER_CONFIGURE_CMD THEN args ELSE NoArgs]
    /\ UNCHANGED <<mcp23017_, auto_enable, mgr_cfg, client, mux_, pc>>

CmdMove ==
    \E args \in MoveArgs : \E r \in feeder_move(args) :
        Handle(FEEDER_MOVE_CMD, args, r)

CmdPostPick ==
    \E args \in IdArgs : \E r \in feeder_post_pick(args) :
        Handle(FEEDER_POST_PICK_CMD, args, r)

CmdStatus ==
    \E args \in IdArgs : \E r \in feeder_status(args) :
        Handle(FEEDER_STATUS_CMD, args, r)

CmdEnable ==
    \E args \in IdArgs : \E r \in feeder_enable(args) :
        Handle(FEEDER_ENABLE_CMD, args, r)

CmdDisable ==
    \E args \in IdArgs : \E r \in feeder_disable(args) :
        Handle(FEEDER_DISABLE_CMD, args, r)

\* FeederManager::wait_for_feeder: a sleeping handler finds is_busy() false,
\* returns, and process_line sends its reply
WaitReturn ==
    \E f \in ActiveFeeders :
        /\ waiters[f] > 0
        /\ ~is_busy(feeders_[f])
        /\ waiters' = [waiters EXCEPT ![f] = @ - 1]
        /\ last' = [Nothing EXCEPT !.cmd = "wait_for_feeder", !.f = f,
                                   !.pre = feeders_[f].status_,
                                   !.ok = TRUE, !.reply = Reply(TRUE, "")]
        /\ UNCHANGED <<feeders_, posted, pca9685_, mcp23017_, auto_enable,
                       mgr_cfg, client, mux_, pc, nvs, enabled>>

\* the wait on timer_ expires: its handler is posted with success
TimerExpire ==
    \E f \in ActiveFeeders :
        LET X == Ctx(f)
            c == <<X.fd.timer_, EC_SUCCESS>>
        IN /\ X.fd.timer_ # NoTimer
           /\ Store(f, [X EXCEPT !.q[c] = @ + 1, !.fd.timer_ = NoTimer])
           /\ UNCHANGED <<mcp23017_, waiters, auto_enable, mgr_cfg, client,
                          mux_, pc, enabled, last>>

\* a worker thread runs a posted completion handler of feeder f
Complete(X, c) ==
    IF c[1] = H_UPDATE THEN update(X, c[2])
    ELSE servo_movement_complete(X, c[2])

Deliver ==
    \E f \in ActiveFeeders, c \in Completions :
        LET X == [Ctx(f) EXCEPT !.q[c] = @ - 1]
            Y == Complete(X, c)
        IN /\ WorkerFree
           /\ posted[f][c] > 0
           /\ Store(f, Y)
           /\ last' = [Nothing EXCEPT !.cmd = c[1], !.err = c[2], !.f = f,
                                      !.pre = X.fd.status_,
                                      !.delta = Delta(X, Y)]
           /\ UNCHANGED <<mcp23017_, waiters, auto_enable, mgr_cfg, client, mux_, pc,
                          enabled>>

\* MCP23017::update: one poll of chip e reads the level of the channel of an
\* active feeder changed, calls the channel's callback if one is registered,
\* and keeps the new levels
Poll ==
    \E e \in DOMAIN mcp23017_, f \in ActiveFeeders :
        LET c == f % NUM_CHANNELS
            level == ~mcp23017_[e].state_[c]
            r == feedback_state_changed(Ctx(f), level)
        IN /\ WorkerFree
           /\ f \div NUM_CHANNELS = e
           /\ mcp23017_' = [mcp23017_ EXCEPT ![e].state_[c] = level]
           /\ IF c \in mcp23017_[e].callbacks_
              THEN /\ Store(f, r.X)
                   /\ last' = [Nothing EXCEPT
                                 !.cmd = "feedback_state_changed", !.f = f,
                                 !.pre = feeders_[f].status_,
                                 !.calls = IF r.called THEN {"move"} ELSE {},
                                 !.ok = r.ok,
                                 !.delta = Delta(Ctx(f), r.X)]
              ELSE UNCHANGED <<feeders_, posted, pca9685_, nvs, last>>
           /\ UNCHANGED <<waiters, auto_enable, mgr_cfg, client, mux_, pc, enabled>>

Next ==
    \/ CmdMove
    \/ CmdPostPick
    \/ CmdStatus
    \/ CmdEnable
    \/ CmdDisable
    \/ WaitReturn
    \/ TimerExpire
    \/ Deliver
    \/ Poll

\* well-addressed commands, timer completions and sensor changes in any order
Spec == Init /\ [][Next]_vars

(***************************************************************************)
(* Command lines with any N argument.                                      *)
(***************************************************************************)
AnyMove ==
    \E args \in AnyArgs : \E r \in feeder_move(args) :
        Handle(FEEDER_MOVE_CMD, args, r)

AnyPostPick ==
    \E args \in AnyArgs : \E r \in feeder_post_pick(args) :
        Handle(FEEDER_POST_PICK_CMD, args, r)

AnyStatus ==
    \E args \in AnyArgs : \E r \in feeder_status(args) :
        Handle(FEEDER_STATUS_CMD, args, r)

AnyEnable ==
    \E args \in AnyArgs : \E r \in feeder_enable(args) :
        Handle(FEEDER_ENABLE_CMD, args, r)

AnyDisable ==
    \E args \in AnyArgs : \E r \in feeder_disable(args) :
        Handle(FEEDER_DISABLE_CMD, args, r)

AnyNext ==
    \/ AnyMove
    \/ AnyPostPick
    \/ AnyStatus
    \/ AnyEnable
    \/ AnyDisable
    \/ WaitReturn

\* command lines whose N is arbitrary, one after the other
AnySpec == Init /\ [][AnyNext]_vars

(***************************************************************************)
(* One move at a time: M610 is sent only to an idle feeder nothing of      *)
(* whose timer is outstanding, and nothing else is sent.                   *)
(***************************************************************************)
SingleMove(Args) ==
    \E args \in Args : \E r \in feeder_move(args) :
        /\ args.N \in DOMAIN feeders_
        /\ feeders_[args.N].status_ = FEEDER_IDLE
        /\ Quiescent(args.N)
        /\ waiters[args.N] = 0
        /\ Handle(FEEDER_MOVE_CMD, args, r)

LiveMove == SingleMove(MoveArgs)

LiveNext ==
    \/ LiveMove
    \/ WaitReturn
    \/ TimerExpire
    \/ Deliver

\* the io_context keeps running: a pending wait expires, a posted completion
\* is run by a worker thread, a sleeping handler wakes up
LiveSpec ==
    /\ Init
    /\ [][LiveNext]_vars
    /\ WF_vars(WaitReturn)
    /\ WF_vars(TimerExpire)
    /\ WF_vars(Deliver)

EvenMove == SingleMove(EvenArgs)

EvenNext ==
    \/ EvenMove
    \/ WaitReturn
    \/ TimerExpire
    \/ Deliver

\* moves of even distances, each run to completion before the next
EvenSpec == Init /\ [][EvenNext]_vars

(***************************************************************************)
(* Configuration: M613 lines, direct calls of Feeder::configure, restarts  *)
(* of the controller, over the blobs a feeder's key can hold at power-up.  *)
(***************************************************************************)
\* size of a blob shorter than feeder_config_t, reaching past movement_degrees
ShortSize == 14

\* the members a blob of another layout can read as
ForeignConfig ==
    [ZeroConfig EXCEPT !.feed_length = 3, !.ignore_feedback = 1,
                       !.movement_degrees = StoredStep]

\* what the feeder's key can hold at power-up: nothing; a blob an earlier run
\* of this program wrote (the default set, or the default set after M613 Z1 or
\* M613 Z0); a shorter or a longer blob of another layout
StoredBlobs(has_mcp) ==
    {NoBlob,
     Blob(DefaultConfig(has_mcp)),
     Blob([DefaultConfig(has_mcp) EXCEPT !.ignore_feedback = 1 - @]),
     [size |-> ShortSize, config |-> ForeignConfig],
     [size |-> configsize_ + 1, config |-> ForeignConfig]}

\* the history record of a start of the controller: args holds the blob
\* found under the key of each feeder
Started(found) == [Nothing EXCEPT !.cmd = "restart", !.args = found]

CfgInit ==
    \E num_pca \in 0 .. Min(MaxDrivers, MAX_PCA9685_COUNT),
       num_mcp \in 0 .. Min(MaxDrivers, MAX_MCP23017_COUNT),
       auto \in BOOLEAN, level \in BOOLEAN,
       blob \in StoredBlobs(FALSE) \cup StoredBlobs(TRUE) :
        LET blobs == [idx \in 0 .. MAX_FEEDER_COUNT - 1 |->
                        IF idx < MaxActive THEN blob ELSE NoBlob]
            b == Boot(num_pca, num_mcp, auto, Levels(num_mcp, level), blobs,
                      manager_config(NoBlob, 1))
        IN /\ blob \in StoredBlobs(num_mcp > 0)
           /\ Booted(b, auto, Started([idx \in DOMAIN b.feeders_ |->
                                         blobs[idx]]), NoClient)

\* F arguments of M613: none is 0, odd and even, at and beyond the range of
\* uint8_t, the top of uint16_t
FArgs == {0, 2, 3, 256, 258, 65535}

\* argument lists of M613 lines
CfgArgs ==
    {[N |-> n] : n \in NArgs}
    \cup {[N |-> n, F |-> f] : n \in NArgs, f \in FArgs}
    \cup {[N |-> n, F |-> 3, U |-> 100] : n \in NArgs}
    \cup {[N |-> n, Z |-> z] : n \in NArgs, z \in {0, 1}}
    \cup {[N |-> n, W |-> 500] : n \in NArgs}
    \cup {[N |-> n, A |-> 80, B |-> 40, C |-> 10, F |-> 2, U |-> 100,
           V |-> vw[1], W |-> vw[2], Z |-> 1] :
             n \in NArgs, vw \in {<<200, 600>>, <<300, 500>>}}

CmdConfigure ==
    \E args \in CfgArgs : \E r \in feeder_configure(args) :
        Handle(FEEDER_CONFIGURE_CMD, args, r)

\* no argument of a configure() call provides a field
NoFields ==
    [advance_angle |-> 0, half_advance_angle |-> 0, retract_angle |-> 0,
     feed_length |-> 0, settle_time_ms |-> 0, min_pulse |-> 0,
     max_pulse |-> 0, ignore_feedback |-> 0 - 1, movement_speed_ms |-> 0 - 1,
     movement_degrees |-> 0]

\* arguments of direct calls of Feeder::configure
CallArgs ==
    {[NoFields EXCEPT !.feed_length = f, !.settle_time_ms = u,
                      !.max_pulse = w] :
        f \in {0, 3, 6}, u \in {0, 100}, w \in {0, 200}}

\* Feeder::configure is called on feeder f
CallConfigure ==
    \E f \in ActiveFeeders, p \in CallArgs :
        LET r == configure(Ctx(f), p)
        IN /\ Store(f, r.X)
           /\ last' = [Nothing EXCEPT
                         !.cmd = "configure", !.f = f,
                         !.pre = feeders_[f].status_,
                         !.calls = IF r.need_persist
                                   THEN {"configure", "nvs_set_blob"}
                                   ELSE {"configure"},
                         !.ok = TRUE,
                         !.delta = Delta(Ctx(f), r.X),
                         !.args = p]
           /\ UNCHANGED <<mcp23017_, waiters, auto_enable, mgr_cfg, client, mux_, pc,
                          enabled>>

\* the controller restarts: the constructor runs again over the chips it
\* detects, the levels the sensors show and the blobs storage holds
Restart ==
    \E b \in {Boot(Cardinality(DOMAIN pca9685_),
                   Cardinality(DOMAIN mcp23017_), auto_enable,
                   [e \in DOMAIN mcp23017_ |-> mcp23017_[e].state_],
                   [idx \in 0 .. MAX_FEEDER_COUNT - 1 |->
                       IF idx \in DOMAIN nvs THEN nvs[idx] ELSE NoBlob],
                   manager_config(mgr_cfg, 1 + MAX_FEEDER_COUNT))} :
        /\ feeders_' = b.feeders_
        /\ posted' = b.posted
        /\ pca9685_' = b.pca9685_
        /\ mcp23017_' = b.mcp23017_
        /\ waiters' = b.waiters
        /\ nvs' = b.nvs
        /\ mgr_cfg' = b.mgr_cfg
        /\ enabled' = b.enabled
        /\ last' = Started(nvs)
        /\ UNCHANGED <<auto_enable, client, mux_, pc>>

CfgNext ==
    \/ CmdConfigure
    \/ CallConfigure
    \/ CmdStatus
    \/ Poll
    \/ Restart

\* configuration commands and calls, status requests, sensor changes and
\* restarts in any order
CfgSpec == CfgInit /\ [][CfgNext]_vars

\* the controller starts with any number of PCA9685 and MCP23017 detected,
\* every sensor high and nothing stored
BootInit ==
    \E num_pca \in 0 .. MAX_PCA9685_COUNT,
       num_mcp \in 0 .. MAX_MCP23017_COUNT, auto \in BOOLEAN :
        Booted(Boot(num_pca, num_mcp, auto,
                    [e \in 0 .. num_mcp - 1 |->
                        [c \in 0 .. NUM_CHANNELS - 1 |-> TRUE]],
                    [idx \in 0 .. MAX_FEEDER_COUNT - 1 |-> NoBlob],
                    manager_config(NoBlob, 1)),
               auto, Nothing, NoClient)

\* startups and restarts of controllers of every size
BootSpec == BootInit /\ [][Restart]_vars

\* feeders the operations of PairSpec are run on
MaxPair == 2

\* one operation of feeder f runs from its call to its return: a public
\* method, the continuation of its timer, or its feedback callback for a
\* changed level; the feeders after the first are only enabled, disabled and
\* moved
Operate ==
    \E f \in DOMAIN feeders_,
       op \in {"move", "post_pick", "enable", "disable", "configure",
               "timer", "feedback_state_changed"} :
        LET X == Ctx(f)
            e == f \div NUM_CHANNELS
            c == f % NUM_CHANNELS
            level == ~mcp23017_[e].state_[c]
            Y == CASE op = "move" -> move(X, 0).X
                   [] op = "post_pick" -> post_pick(X).X
                   [] op = "enable" -> enable(X).X
                   [] op = "disable" -> disable(X).X
                   [] op = "configure" ->
                        configure(X, [NoFields EXCEPT !.feed_length = 6]).X
                   [] op = "timer" ->
                        Complete([X EXCEPT !.fd.timer_ = NoTimer],
                                 <<X.fd.timer_, EC_SUCCESS>>)
                   [] op = "feedback_state_changed" ->
                        feedback_state_changed(X, level).X
        IN /\ f < MaxPair
           /\ f > 0 => op \in {"move", "timer", "enable", "disable"}
           /\ op = "timer" => X.fd.timer_ # NoTimer
           /\ IF op = "feedback_state_changed"
              THEN /\ e \in DOMAIN mcp23017_
                   /\ c \in mcp23017_[e].callbacks_
                   /\ mcp23017_' = [mcp23017_ EXCEPT ![e].state_[c] = level]
              ELSE UNCHANGED mcp23017_
           /\ Store(f, Y)
           /\ last' = [Nothing EXCEPT !.cmd = op, !.f = f]
           /\ UNCHANGED <<waiters, auto_enable, mgr_cfg, client, enabled, mux_, pc>>

WaitNext ==
    \/ LiveMove
    \/ CmdPostPick
    \/ CmdEnable
    \/ CmdDisable
    \/ WaitReturn
    \/ TimerExpire
    \/ Deliver

\* moves, post-picks, enables and disables while the io_context keeps
\* running; a handler asleep in wait_for_feeder polls again and again, so it
\* returns if is_busy() is false at infinitely many of its polls
WaitSpec ==
    /\ Init
    /\ [][WaitNext]_vars
    /\ SF_vars(WaitReturn)
    /\ WF_vars(TimerExpire)
    /\ WF_vars(Deliver)

(***************************************************************************)
(* Worker threads inside the methods of a Feeder, one statement at a time. *)
(* A step is the acquisition of mux_ ("lock"), its release at the end of   *)
(* the lock_guard's scope ("unlock"), or statements that read or write     *)
(* members of the Feeder ("access"); at is the step that follows, 0 when   *)
(* the method returns.                                                     *)
(***************************************************************************)
\* feeders whose methods the worker threads are followed through
MaxLocked == 1

\* a method whose whole body runs under a lock_guard on mux_ and leaves Y
guarded(at, X, Y) ==
    CASE at = 1 -> [kind |-> "lock", X |-> X, at |-> 2]
      [] at = 2 -> [kind |-> "access", X |-> Y, at |-> 3]
      [] at = 3 -> [kind |-> "unlock", X |-> X, at |-> 0]

\* Feeder::post_pick, statement by statement
post_pick_steps(at, X) ==
    CASE at = 1 -> [kind |-> "access", X |-> X,
                    at |-> IF ~is_enabled(X.fd) THEN 0 ELSE 2]
      [] at = 2 -> [kind |-> "access", X |-> X,
                    at |-> IF X.fd.position_ # POSITION_RETRACTED
                           THEN 3 ELSE 0]
      [] at = 3 -> [kind |-> "lock", X |-> X, at |-> 4]
      [] at = 4 -> [kind |-> "access", X |-> retract_locked(X), at |-> 5]
      [] at = 5 -> [kind |-> "unlock", X |-> X, at |-> 0]

\* variant of feedback_state_changed: the lock_guard taken for the store to
\* tensioned_ lives to the end of the method
feedback_steps_unscoped(at, X, state) ==
    CASE at = 1 -> [kind |-> "lock", X |-> X, at |-> 2]
      [] at = 2 -> [kind |-> "access",
                    X |-> [X EXCEPT !.fd.tensioned_ = state], at |-> 4]
      [] at = 4 -> [kind |-> "access", X |-> X,
                    at |-> IF ~is_busy(X.fd) THEN 5 ELSE 11]
      [] at = 5 -> [kind |-> "access", X |-> X,
                    at |-> IF ~X.fd.tensioned_ THEN 6 ELSE 7]
      [] at = 6 -> [kind |-> "access",
                    X |-> [X EXCEPT !.fd.advance_ = TRUE], at |-> 12]
      [] at = 7 -> [kind |-> "access", X |-> X,
                    at |-> IF X.fd.advance_ THEN 8 ELSE 12]
      [] at = 8 -> [kind |-> "lock", X |-> X, at |-> 9]
      [] at = 9 -> [kind |-> "access", X |-> move(X, 0).X, at |-> 10]
      [] at = 10 -> [kind |-> "unlock", X |-> X, at |-> 11]
      [] at = 11 -> [kind |-> "access",
                     X |-> [X EXCEPT !.fd.advance_ = FALSE], at |-> 12]
      [] at = 12 -> [kind |-> "unlock", X |-> X, at |-> 0]

\* Feeder::feedback_state_changed, statement by statement; steps 8 to 10 are
\* its call of move()
feedback_steps(at, X, state) ==
    CASE at = 1 -> [kind |-> "lock", X |-> X, at |-> 2]
      [] at = 2 -> [kind |-> "access",
                    X |-> [X EXCEPT !.fd.tensioned_ = state], at |-> 3]
      [] at = 3 -> [kind |-> "unlock", X |-> X, at |-> 4]
      [] at = 4 -> [kind |-> "access", X |-> X,
                    at |-> IF ~is_busy(X.fd) THEN 5 ELSE 11]
      [] at = 5 -> [kind |-> "access", X |-> X,
                    at |-> IF ~X.fd.tensioned_ THEN 6 ELSE 7]
      [] at = 6 -> [kind |-> "access",
                    X |-> [X EXCEPT !.fd.advance_ = TRUE], at |-> 0]
      [] at = 7 -> [kind |-> "access", X |-> X,
                    at |-> IF X.fd.advance_ THEN 8 ELSE 0]
      [] at = 8 -> [kind |-> "lock", X |-> X, at |-> 9]
      [] at = 9 -> [kind |-> "access", X |-> move(X, 0).X, at |-> 10]
      [] at = 10 -> [kind |-> "unlock", X |-> X, at |-> 11]
      [] at = 11 -> [kind |-> "access",
                     X |-> [X EXCEPT !.fd.advance_ = FALSE], at |-> 0]

\* the methods of Feeder other threads call, and the argument they pass
Methods ==
    {<<"move", 0>>, <<"post_pick", 0>>, <<"status", 0>>, <<"enable", 0>>,
     <<"disable", 0>>, <<"is_tensioned", 0>>, <<"configure", 6>>}

\* variant of the steps of a thread: move() tests is_moving() before it
\* takes mux_, and sets movement_ and status_ under it
StepOf_move_tested_unlocked(p, X) ==
    CASE p.op = "move" ->
            (CASE p.at = 1 -> [kind |-> "access", X |-> X,
                               at |-> IF is_moving(X.fd) THEN 0 ELSE 2]
               [] p.at = 2 -> [kind |-> "lock", X |-> X, at |-> 3]
               [] p.at = 3 -> [kind |-> "access",
                               X |-> move_while_moving(X, p.arg).X, at |-> 4]
               [] p.at = 4 -> [kind |-> "unlock", X |-> X, at |-> 0])
      [] p.op = "enable" -> guarded(p.at, X, enable(X).X)
      [] p.op = "disable" -> guarded(p.at, X, disable(X).X)
      [] p.op = "is_tensioned" -> guarded(p.at, X, X)
      [] p.op = H_UPDATE -> guarded(p.at, X, update(X, EC_SUCCESS))
      [] p.op = H_SERVO ->
            guarded(p.at, X, servo_movement_complete(X, EC_SUCCESS))
      [] p.op = "status" -> [kind |-> "access", X |-> X, at |-> 0]
      [] p.op = "configure" ->
            [kind |-> "access", at |-> 0,
             X |-> configure(X, [NoFields EXCEPT !.feed_length = p.arg]).X]
      [] p.op = "post_pick" -> post_pick_steps(p.at, X)
      [] p.op = "feedback_state_changed" ->
            feedback_steps(p.at, X, p.arg = 1)

\* the step the thread at p executes next, X being the context of p.f;
\* status() and configure() are one access each, made without taking mux_
StepOf(p, X) ==
    CASE p.op = "move" -> guarded(p.at, X, move(X, p.arg).X)
      [] p.op = "enable" -> guarded(p.at, X, enable(X).X)
      [] p.op = "disable" -> guarded(p.at, X, disable(X).X)
      [] p.op = "is_tensioned" -> guarded(p.at, X, X)
      [] p.op = H_UPDATE -> guarded(p.at, X, update(X, EC_SUCCESS))
      [] p.op = H_SERVO ->
            guarded(p.at, X, servo_movement_complete(X, EC_SUCCESS))
      [] p.op = "status" -> [kind |-> "access", X |-> X, at |-> 0]
      [] p.op = "configure" ->
            [kind |-> "access", at |-> 0,
             X |-> configure(X, [NoFields EXCEPT !.feed_length = p.arg]).X]
      [] p.op = "post_pick" -> post_pick_steps(p.at, X)
      [] p.op = "feedback_state_changed" ->
            feedback_steps(p.at, X, p.arg = 1)

\* a free worker thread enters a method of feeder f: a public operation, a
\* completion handler posted by timer_, or the callback of a sensor channel
\* whose polled level changed (one poll of a chip runs at a time)
Enter ==
    \E t \in DOMAIN pc, f \in DOMAIN feeders_ :
        /\ pc[t] = Returned
        /\ f < MaxLocked
        /\ \/ \E m \in Methods :
                /\ pc' = [pc EXCEPT ![t] = [op |-> m[1], at |-> 1, f |-> f,
                                            arg |-> m[2]]]
                /\ UNCHANGED <<posted, mcp23017_>>
           \/ \E h \in {H_UPDATE, H_SERVO} :
                /\ posted[f][<<h, EC_SUCCESS>>] > 0
                /\ posted' = [posted EXCEPT ![f][<<h, EC_SUCCESS>>] = @ - 1]
                /\ pc' = [pc EXCEPT ![t] = [op |-> h, at |-> 1, f |-> f,
                                            arg |-> 0]]
                /\ UNCHANGED mcp23017_
           \/ \E e \in DOMAIN mcp23017_ :
                LET c == f % NUM_CHANNELS
                    level == ~mcp23017_[e].state_[c]
                IN /\ f \div NUM_CHANNELS = e
                   /\ c \in mcp23017_[e].callbacks_
                   /\ \A u \in DOMAIN pc :
                        pc[u].op # "feedback_state_changed"
                   /\ mcp23017_' = [mcp23017_ EXCEPT ![e].state_[c] = level]
                   /\ pc' = [pc EXCEPT ![t] =
                               [op |-> "feedback_state_changed", at |-> 1,
                                f |-> f, arg |-> IF level THEN 1 ELSE 0]]
                   /\ UNCHANGED posted
        /\ UNCHANGED <<feeders_, pca9685_, waiters, auto_enable, mgr_cfg, client, nvs,
                       enabled, mux_, last>>

\* worker thread t executes its next step; a thread that needs mux_ waits
\* until no thread holds it
Run(t) ==
    /\ pc[t] # Returned
    /\ LET f == pc[t].f
           s == StepOf(pc[t], Ctx(f))
       IN /\ pc' = [pc EXCEPT ![t] = IF s.at = 0 THEN Returned
                                     ELSE [@ EXCEPT !.at = s.at]]
          /\ CASE s.kind = "lock" ->
                    /\ mux_[f] = 0
                    /\ mux_' = [mux_ EXCEPT ![f] = t]
                    /\ UNCHANGED <<feeders_, posted, pca9685_, nvs>>
               [] s.kind = "unlock" ->
                    /\ mux_' = [mux_ EXCEPT ![f] = 0]
                    /\ UNCHANGED <<feeders_, posted, pca9685_, nvs>>
               [] s.kind = "access" ->
                    /\ Store(f, s.X)
                    /\ UNCHANGED mux_
    /\ UNCHANGED <<mcp23017_, waiters, auto_enable, mgr_cfg, client, enabled, last>>

ThreadNext ==
    \/ Enter
    \/ \E t \in DOMAIN pc : Run(t)
    \/ TimerExpire

\* the controller started with its feeders enabled, a sensor chip for them,
\* every sensor channel high, and servos that move to an angle in one step
ThreadInit ==
    /\ Init
    /\ auto_enable
    /\ \A f \in DOMAIN feeders_ : feeders_[f].config_.movement_degrees = 0
    /\ DOMAIN mcp23017_ # {}
    /\ \A e \in DOMAIN mcp23017_ :
            \A c \in 0 .. NUM_CHANNELS - 1 : mcp23017_[e].state_[c]

\* the worker threads run the methods of the feeders interleaved
ThreadSpec == ThreadInit /\ [][ThreadNext]_vars

\* operations of two feeders of one chip in any order
PairSpec == ThreadInit /\ [][Operate]_vars

(***************************************************************************)
(* GCodeServer::GCodeClient.  A std::string is the sequence of its          *)
(* characters.  lines is what the peer sends, wire the bytes of it not yet  *)
(* read from the socket, sent the replies written to the socket.            *)
(***************************************************************************)
EOL == "\n"

\* the names FeederManager registers with the server
dispatcher_ ==
    {FEEDER_MOVE_CMD, FEEDER_POST_PICK_CMD, FEEDER_STATUS_CMD,
     FEEDER_CONFIGURE_CMD, FEEDER_ENABLE_CMD, FEEDER_DISABLE_CMD}

\* std::string::find_first_of for one character: its first position in str
\* at or after pos, 0 for npos (positions count from 1)
RECURSIVE find_first_of(_, _, _)
find_first_of(str, ch, pos) ==
    IF pos > Len(str) THEN 0
    ELSE IF str[pos] = ch THEN pos
    ELSE find_first_of(str, ch, pos + 1)

\* string_trim: leading and trailing white space removed
RECURSIVE string_trim(_)
string_trim(s) ==
    IF s = <<>> THEN s
    ELSE IF s[1] \in {" ", "\t", "\r"} THEN string_trim(Tail(s))
    ELSE IF s[Len(s)] \in {" ", "\t", "\r"}
    THEN string_trim(SubSeq(s, 1, Len(s) - 1))
    ELSE s

\* variant of process_line: only the name G itself is discarded as a G code
process_line_only_g(line) ==
    LET RECURSIVE tokenize(_)
        tokenize(str) ==
            IF str = <<>> THEN <<>>
            ELSE LET pos == find_first_of(str, " ", 1)
                 IN IF pos = 0 THEN <<str>>
                    ELSE <<SubSeq(str, 1, pos - 1)>>
                         \o tokenize(SubSeq(str, pos + 1, Len(str)))
        RECURSIVE string(_)
        string(str) == IF str = <<>> THEN "" ELSE str[1] \o string(Tail(str))
        semi == find_first_of(line, ";", 1)
        args == tokenize(IF semi = 0 THEN line
                         ELSE SubSeq(line, 1, semi - 1))
        command == string(args[1])
        handled ==
            CASE command = FEEDER_MOVE_CMD -> feeder_move(NoArgs)
              [] command = FEEDER_POST_PICK_CMD -> feeder_post_pick(NoArgs)
              [] command = FEEDER_STATUS_CMD -> feeder_status(NoArgs)
              [] command = FEEDER_CONFIGURE_CMD -> feeder_configure(NoArgs)
              [] command = FEEDER_ENABLE_CMD -> feeder_enable(NoArgs)
              [] command = FEEDER_DISABLE_CMD -> feeder_disable(NoArgs)
        Out(name, reply) ==
            [name |-> name, reply |-> reply \o "\n", fault |-> FALSE]
    IN IF args = <<>>
       THEN {[name |-> <<>>, reply |-> "", fault |-> TRUE],
             Out(<<>>, "error invalid command token: ")}
       ELSE IF command \in dispatcher_
       THEN {Out(args[1], (IF r.ok THEN COMMAND_OK ELSE COMMAND_ERROR)
                          \o " " \o r.msg) : r \in handled}
       ELSE IF (command = "G" \/ command = "M82" \/ command = "M204"
               \/ command = "M400")
       THEN {Out(args[1], COMMAND_OK \o " ; not implemented")}
       ELSE IF command = "M115"
       THEN {Out(args[1], COMMAND_OK \o " "
                          \o "FIRMWARE_NAME:Esp32SlottedFeeder ("
                          \o "version" \o ")")}
       ELSE {Out(args[1], "error invalid command token: " \o command)}

\* GCodeClient::process_line: the replies it can queue for a trimmed,
\* non-empty line, with the command name it found.  The lines of Streams
\* give a registered command no arguments.  args[0] of a line with nothing
\* before its ";" is a read of an empty vector: the firmware faults, or goes
\* on with an empty name
process_line(line) ==
    LET RECURSIVE tokenize(_)
        tokenize(str) ==
            IF str = <<>> THEN <<>>
            ELSE LET pos == find_first_of(str, " ", 1)
                 IN IF pos = 0 THEN <<str>>
                    ELSE <<SubSeq(str, 1, pos - 1)>>
                         \o tokenize(SubSeq(str, pos + 1, Len(str)))
        RECURSIVE string(_)
        string(str) == IF str = <<>> THEN "" ELSE str[1] \o string(Tail(str))
        semi == find_first_of(line, ";", 1)
        args == tokenize(IF semi = 0 THEN line
                         ELSE SubSeq(line, 1, semi - 1))
        command == string(args[1])
        handled ==
            CASE command = FEEDER_MOVE_CMD -> feeder_move(NoArgs)
              [] command = FEEDER_POST_PICK_CMD -> feeder_post_pick(NoArgs)
              [] command = FEEDER_STATUS_CMD -> feeder_status(NoArgs)
              [] command = FEEDER_CONFIGURE_CMD -> feeder_configure(NoArgs)
              [] command = FEEDER_ENABLE_CMD -> feeder_enable(NoArgs)
              [] command = FEEDER_DISABLE_CMD -> feeder_disable(NoArgs)
        Out(name, reply) ==
            [name |-> name, reply |-> reply \o "\n", fault |-> FALSE]
    IN IF args = <<>>
       THEN {[name |-> <<>>, reply |-> "", fault |-> TRUE],
             Out(<<>>, "error invalid command token: ")}
       ELSE IF command \in dispatcher_
       THEN {Out(args[1], (IF r.ok THEN COMMAND_OK ELSE COMMAND_ERROR)
                          \o " " \o r.msg) : r \in handled}
       ELSE IF (args[1][1] = "G" \/ command = "M82" \/ command = "M204"
               \/ command = "M400")
       THEN {Out(args[1], COMMAND_OK \o " ; not implemented")}
       ELSE IF command = "M115"
       THEN {Out(args[1], COMMAND_OK \o " "
                          \o "FIRMWARE_NAME:Esp32SlottedFeeder ("
                          \o "version" \o ")")}
       ELSE {Out(args[1], "error invalid command token: " \o command)}

\* what a peer sends over one connection: one line or two, each ended by EOL
Streams ==
    LET Lines ==
            {<<"G", "0">>,
             <<"G">>,
             <<"G", "2", "8", " ", "X">>,
             <<"M", "8", "2">>,
             <<"M", "2", "0", "4", " ", "P", "1">>,
             <<"M", "4", "0", "0">>,
             <<"M", "1", "1", "5">>,
             <<"M", "9", "9", "9">>,
             <<"M", "8">>,
             <<"T", "0", " ", ";", " ", "c">>,
             <<"g", "0">>,
             <<" ", "M", "9", "9", "9", " ">>,
             <<";", " ", "c">>,
             <<>>,
             <<" ">>,
             <<"M", "6", "1", "2">>,
             <<"M", "9", "9", "9", "\r">>}
    IN {<<l>> : l \in Lines} \cup {<<l, k>> : l \in Lines, k \in Lines}

\* async_read_until has a read pending and streambuf_ holds no EOL: bytes
\* arrive, through the end of the first line on the wire or all of them
Receive ==
    /\ client.reading
    /\ ~client.fault
    /\ find_first_of(client.streambuf_, EOL, 1) = 0
    /\ client.wire # <<>>
    /\ \E k \in {find_first_of(client.wire, EOL, 1), Len(client.wire)} :
        client' = [client EXCEPT
                     !.streambuf_ = @ \o SubSeq(client.wire, 1, k),
                     !.wire = SubSeq(@, k + 1, Len(@))]
    /\ UNCHANGED <<feeders_, posted, pca9685_, mcp23017_, waiters,
                   auto_enable, mgr_cfg, nvs, enabled, mux_, pc, last>>

\* GCodeClient::on_read without error: size counts the bytes through the
\* first EOL; getline takes the line out of streambuf_, consume(size) then
\* drops up to size further bytes
on_read ==
    \E size \in {find_first_of(client.streambuf_, EOL, 1)} :
    LET buf == client.streambuf_
        after == SubSeq(buf, size + 1, Len(buf))
        rest == SubSeq(after, Min(size, Len(after)) + 1, Len(after))
    IN /\ client.reading
       /\ ~client.fault
       /\ size > 0
       /\ \E line \in {string_trim(SubSeq(buf, 1, size - 1))} :
           IF line = <<>>
              THEN /\ client' = [client EXCEPT !.streambuf_ = rest,
                                               !.reading = FALSE]
                   /\ last' = [Nothing EXCEPT !.cmd = "on_read"]
              ELSE \E o \in process_line(line) :
                    /\ client' = [client EXCEPT
                                    !.streambuf_ = rest,
                                    !.reading = FALSE,
                                    !.fault = o.fault,
                                    !.outgoing_ = IF o.fault THEN @
                                                  ELSE Append(@, o.reply)]
                    /\ last' = [Nothing EXCEPT !.cmd = "process_line",
                                               !.args = o.name,
                                               !.ok = ~o.fault,
                                               !.reply = o.reply]
       /\ UNCHANGED <<feeders_, posted, pca9685_, mcp23017_, waiters,
                      auto_enable, mgr_cfg, nvs, enabled, mux_, pc>>

\* GCodeClient::on_write without error
on_write ==
    /\ client.outgoing_ # <<>>
    /\ ~client.fault
    /\ client' = [client EXCEPT
                    !.sent = Append(@, Head(client.outgoing_)),
                    !.outgoing_ = Tail(@),
                    !.reading = (Tail(client.outgoing_) = <<>>)]
    /\ UNCHANGED <<feeders_, posted, pca9685_, mcp23017_, waiters,
                   auto_enable, mgr_cfg, nvs, enabled, mux_, pc, last>>

\* a controller with one PCA9685 has accepted a connection and started it
ClientInit ==
    \E ls \in Streams, auto \in BOOLEAN :
        LET RECURSIVE Bytes(_)
            Bytes(l) ==
                IF l = <<>> THEN <<>>
                ELSE Head(l) \o <<EOL>> \o Bytes(Tail(l))
        IN
        Booted(Boot(1, 0, auto, <<>>,
                    [idx \in 0 .. MAX_FEEDER_COUNT - 1 |-> NoBlob],
                    manager_config(NoBlob, 1)),
               auto, Nothing,
               [NoClient EXCEPT !.lines = ls, !.wire = Bytes(ls),
                                !.reading = TRUE])

\* the io_context keeps running: bytes sent arrive, completed reads and
\* writes have their handlers run
ClientSpec ==
    /\ ClientInit
    /\ [][Receive \/ on_read \/ on_write]_vars
    /\ WF_vars(Receive)
    /\ WF_vars(on_read)
    /\ WF_vars(on_write)

(***************************************************************************)
(* Command lines as the tokens GCodeClient::process_line hands to a        *)
(* handler: each argument is the sequence of its characters, the letter    *)
(* first.  An exception that leaves a handler leaves io_context::run();    *)
(* worker_task logs it and returns, and the worker thread is gone.         *)
(***************************************************************************)
\* std::stoi(str): white space is skipped, a sign is read, then decimal
\* digits up to the first other character; no digit at all throws
\* std::invalid_argument, a value outside int throws std::out_of_range
stoi(str) ==
    LET RECURSIVE skip(_)
        skip(pos) ==
            IF pos <= Len(str) /\ str[pos] \in {" ", "\t", "\r", "\n"}
            THEN skip(pos + 1) ELSE pos
        start == skip(1)
        negative == start <= Len(str) /\ str[start] = "-"
        first == IF start <= Len(str) /\ str[start] \in {"+", "-"}
                 THEN start + 1 ELSE start
        digit == [c \in {"0", "1", "2", "3", "4", "5", "6", "7", "8", "9"} |->
                    CASE c = "0" -> 0 [] c = "1" -> 1 [] c = "2" -> 2
                      [] c = "3" -> 3 [] c = "4" -> 4 [] c = "5" -> 5
                      [] c = "6" -> 6 [] c = "7" -> 7 [] c = "8" -> 8
                      [] c = "9" -> 9]
        \* the digits from pos on, accumulated below zero when the sign is a
        \* minus; range: whether the value has stayed inside int
        RECURSIVE value(_, _)
        value(pos, acc) ==
            IF pos > Len(str) \/ str[pos] \notin DOMAIN digit
            THEN [range |-> TRUE, value |-> acc]
            ELSE IF negative
            THEN IF acc < 0 - 214748364
                    \/ (acc = 0 - 214748364 /\ digit[str[pos]] > 8)
                 THEN [range |-> FALSE, value |-> 0]
                 ELSE value(pos + 1, (acc * 10) - digit[str[pos]])
            ELSE IF acc > 214748364
                    \/ (acc = 214748364 /\ digit[str[pos]] > 7)
                 THEN [range |-> FALSE, value |-> 0]
                 ELSE value(pos + 1, (acc * 10) + digit[str[pos]])
        v == value(first, 0)
    IN IF first > Len(str) \/ str[first] \notin DOMAIN digit
       THEN [throws |-> "invalid_argument", value |-> 0]
       ELSE IF v.range THEN [throws |-> "", value |-> v.value]
       ELSE [throws |-> "out_of_range", value |-> 0]

\* a worker thread takes the handler of a registered command through the
\* arguments of one line.  extract_arg finds the first argument that starts
\* with the letter and hands the rest of it to std::stoi; the handlers ask for
\* their letters in the order of the code and stop asking at an early return
CmdTokens ==
    \E cmd \in dispatcher_ :
    \E tokens \in
        LET N0 == <<"N", "0">>
            Nx == <<"N", "x">>
        IN {<<t>> : t \in {N0, Nx, <<"N">>, <<"N", "0", "x">>,
                           <<"N", "-", "1">>, <<"n", "0">>,
                           <<"N", "9", "9", "9", "9", "9", "9", "9", "9",
                             "9", "9", "9">>,
                           <<"D", "x">>, <<"F", "x">>}}
           \cup {<<N0, d>> : d \in {<<"D", "2">>, <<"D", "x">>,
                                     <<"F", "x">>}}
           \cup {<<<<"Q", "x">>, N0>>,
                 <<N0, <<"F", "3">>, <<"A", "x">>>>,
                 <<N0, <<"F", "2">>, <<"A", "x">>>>} :
        LET RECURSIVE find_if(_, _)
            find_if(arg_letter, k) ==
                IF k > Len(tokens) THEN 0
                ELSE IF tokens[k] # <<>> /\ tokens[k][1] = arg_letter THEN k
                ELSE find_if(arg_letter, k + 1)
            read(L) == stoi(Tail(tokens[find_if(L, 1)]))
            bad(L) == find_if(L, 1) # 0 /\ read(L).throws # ""
            letters ==
                CASE cmd = FEEDER_MOVE_CMD -> {"D", "N"}
                  [] cmd = FEEDER_CONFIGURE_CMD ->
                        {"N", "F", "A", "B", "C", "D", "S", "U", "V", "W", "Z"}
                  [] OTHER -> {"N"}
            args == [L \in {l \in letters : find_if(l, 1) # 0 /\ ~bad(l)} |->
                        read(L).value]
            n == extract_arg("N", args)
            feed_length == extract_arg_to("F", args, "uint16_t", 0)
            thrown ==
                CASE cmd = FEEDER_MOVE_CMD -> bad("D") \/ bad("N")
                  [] cmd = FEEDER_CONFIGURE_CMD ->
                        \/ bad("N")
                        \/ /\ n.found /\ n.value <= FeederCount
                           /\ \/ bad("F")
                              \/ /\ ~(feed_length.found
                                      /\ feed_length.value % 2 # 0)
                                 /\ \E L \in letters \ {"N", "F"} : bad(L)
                  [] OTHER -> bad("N")
            handled ==
                CASE cmd = FEEDER_MOVE_CMD -> feeder_move(args)
                  [] cmd = FEEDER_POST_PICK_CMD -> feeder_post_pick(args)
                  [] cmd = FEEDER_STATUS_CMD -> feeder_status(args)
                  [] cmd = FEEDER_CONFIGURE_CMD -> feeder_configure(args)
                  [] cmd = FEEDER_ENABLE_CMD -> feeder_enable(args)
                  [] cmd = FEEDER_DISABLE_CMD -> feeder_disable(args)
            free == {t \in DOMAIN pc : pc[t] = Returned}
        IN /\ BusyWorkers < Cardinality(free)
           /\ IF thrown
              THEN /\ pc' = [pc EXCEPT
                               ![CHOOSE t \in free : \A u \in free : t <= u] =
                                   [Returned EXCEPT !.op = "exited"]]
                   /\ last' = [Nothing EXCEPT !.cmd = cmd, !.args = tokens,
                                              !.calls = {"throw"}]
                   /\ UNCHANGED <<feeders_, posted, pca9685_, nvs, waiters,
                                  enabled>>
              ELSE \E r \in handled :
                    /\ IF r.f # NoFeeder
                       THEN /\ Store(r.f, r.X)
                            /\ waiters' =
                                 IF r.wait
                                 THEN [waiters EXCEPT ![r.f] = @ + 1]
                                 ELSE waiters
                            /\ enabled' =
                                 IF "enable" \in r.calls
                                 THEN enabled \cup {r.f}
                                 ELSE IF "disable" \in r.calls
                                 THEN enabled \ {r.f}
                                 ELSE enabled
                       ELSE UNCHANGED <<feeders_, posted, pca9685_, nvs,
                                        waiters, enabled>>
                    /\ last' = [Nothing EXCEPT
                                  !.cmd = cmd, !.f = r.f, !.oob = r.oob,
                                  !.calls = r.calls, !.ok = r.ok,
                                  !.reply = IF r.fault \/ r.wait
                                            THEN NoReply
                                            ELSE Reply(r.ok, r.msg),
                                  !.args = tokens]
                    /\ UNCHANGED pc
           /\ UNCHANGED <<mcp23017_, auto_enable, mgr_cfg, client, mux_>>

\* command lines with well-formed and malformed arguments, one after the
\* other, on the worker threads that are left
ArgSpec == ThreadInit /\ [][CmdTokens \/ WaitReturn]_vars

(***************************************************************************)
(* Feeder identifiers and storage keys: a controller with more feeders     *)
(* than esp_fill_random fills identifiers for.                             *)
(***************************************************************************)
\* feeders of the model with generated identifiers
MaxFilled == 2
\* feeders of the model past the last generated identifier
MaxUnfilled == 2

\* Feeder::configure is called on one of the first feeders or on one of the
\* first feeders past the bytes esp_fill_random has written
ConfigureSlot ==
    \E f \in DOMAIN feeders_, l \in {2, 6} :
        LET r == configure(Ctx(f), [NoFields EXCEPT !.feed_length = l])
        IN /\ \/ f < MaxFilled
              \/ /\ (4 * f) + 3 >= MAX_FEEDER_COUNT
                 /\ (4 * (f - MaxUnfilled)) + 3 < MAX_FEEDER_COUNT
           /\ Store(f, r.X)
           /\ last' = [Nothing EXCEPT !.cmd = "configure", !.f = f,
                                      !.calls = IF r.need_persist
                                                THEN {"configure",
                                                      "nvs_set_blob"}
                                                ELSE {"configure"},
                                      !.ok = TRUE]
           /\ UNCHANGED <<mcp23017_, waiters, auto_enable, mgr_cfg, client,
                          mux_, pc, enabled>>

\* the first boot of a controller with three PCA9685, the fewest that give
\* feeders past the generated identifiers, with no MCP23017 or with three
UuidInit ==
    /\ BootInit
    /\ Cardinality(DOMAIN pca9685_) = 3
    /\ Cardinality(DOMAIN mcp23017_) \in {0, 3}

\* calls of configure and restarts in any order
UuidSpec == UuidInit /\ [][ConfigureSlot \/ Restart]_vars

(***************************************************************************)
(* Incremental movement: feeders whose stored configuration asks for steps *)
(* of movement_degrees between angles anywhere in the range of uint8_t.    *)
(***************************************************************************)
\* the controller starts with one PCA9685, its feeders enabled, and finds a
\* configuration with a retract angle, a full advance angle and a step
\* stored for the first feeder
StepInit ==
    \E retract \in {1, 2, 15, 250, 255}, full \in {1, 2, 15, 90, 250, 255},
       degrees \in {1, 30, 255} :
        Booted(Boot(1, 0, TRUE, <<>>,
                    [idx \in 0 .. MAX_FEEDER_COUNT - 1 |->
                        IF idx = 0
                        THEN Blob([DefaultConfig(FALSE) EXCEPT
                                     !.servo_retract_angle = retract,
                                     !.servo_full_angle = full,
                                     !.movement_degrees = degrees])
                        ELSE NoBlob],
                    manager_config(NoBlob, 1)),
               TRUE, Nothing, NoClient)

\* moves of the first feeder one at a time, each stepped to its end
StepSpec == StepInit /\ [][LiveNext]_vars

(***************************************************************************)
(* MCP23017::update, a whole poll of one chip: both input ports are read   *)
(* and compared with state_, input by input.                               *)
(***************************************************************************)
\* inputs whose level a poll finds changed: any of the first MaxPolled
\* inputs of each port
MaxPolled == 1

\* variant of the loop of update: the callback of every subscribed input is
\* invoked, changed or not
update_calls_unchanged_too(state_, state, callbacks_) ==
    LET RECURSIVE loop(_)
        loop(index) ==
            IF index = 8 THEN <<>>
            ELSE (IF index \in callbacks_
                  THEN <<[channel |-> index, state |-> state[index]]>>
                  ELSE <<>>)
                 \o (IF index + 8 \in callbacks_
                     THEN <<[channel |-> index + 8,
                             state |-> state[index + 8]]>>
                     ELSE <<>>)
                 \o loop(index + 1)
    IN loop(0)

\* the loop of MCP23017::update over index 0..7: the callbacks it invokes, in
\* order, each with the argument it is given
update_calls(state_, state, callbacks_) ==
    LET RECURSIVE loop(_)
        loop(index) ==
            IF index = 8 THEN <<>>
            ELSE (IF state[index] # state_[index] /\ index \in callbacks_
                  THEN <<[channel |-> index, state |-> state[index]]>>
                  ELSE <<>>)
                 \o (IF state[index + 8] # state_[index + 8]
                        /\ index + 8 \in callbacks_
                     THEN <<[channel |-> index + 8,
                             state |-> state[index + 8]]>>
                     ELSE <<>>)
                 \o loop(index + 1)
    IN loop(0)

\* MCP23017::update of chip e without a timer error.  read: whether
\* i2c_.readBytes succeeded; its result is only logged.  After a read that
\* failed the local array state holds what the failed call left in it, which
\* nothing initialised: any levels.  A callback is
\* Feeder::feedback_state_changed of the feeder of that input
MCP23017_update ==
    \E e \in DOMAIN mcp23017_, read \in BOOLEAN,
       changed \in SUBSET {c \in 0 .. NUM_CHANNELS - 1 : c % 8 < MaxPolled} :
        LET state_ == mcp23017_[e].state_
            state == [c \in 0 .. NUM_CHANNELS - 1 |->
                        IF c \in changed THEN ~state_[c] ELSE state_[c]]
        IN \E calls \in {update_calls(state_, state,
                                       mcp23017_[e].callbacks_)} :
           \E Y \in {[f \in DOMAIN feeders_ |->
                        IF /\ f \div NUM_CHANNELS = e
                           /\ \E k \in 1 .. Len(calls) :
                                calls[k].channel = f % NUM_CHANNELS
                        THEN feedback_state_changed(Ctx(f),
                                                state[f % NUM_CHANNELS]).X
                        ELSE Ctx(f)]} :
           /\ WorkerFree
           /\ \A f \in DOMAIN feeders_ : PostedCount(Y[f].q) <= MaxPosted
           /\ mcp23017_' = [mcp23017_ EXCEPT ![e].state_ = state]
           /\ feeders_' = [f \in DOMAIN feeders_ |-> Y[f].fd]
           /\ posted' = [f \in DOMAIN feeders_ |-> Y[f].q]
           /\ pca9685_' = [d \in DOMAIN pca9685_ |->
                             [c \in 0 .. NUM_CHANNELS - 1 |->
                                 Y[(d * NUM_CHANNELS) + c].reg]]
           /\ last' = [Nothing EXCEPT !.cmd = "MCP23017::update", !.n = e,
                                      !.ok = read, !.calls = calls,
                                      !.args = state]
           /\ UNCHANGED <<waiters, auto_enable, mgr_cfg, nvs, client, mux_,
                          pc, enabled>>

\* polls of the feedback chips while the moves they start run
PollSpec == CfgInit /\ [][MCP23017_update \/ TimerExpire \/ Deliver]_vars

(***************************************************************************)
(* Properties.                                                             *)
(***************************************************************************)
\* the feeders a property speaks about
Feeders == 0 .. MaxActive - 1

\* the last handler was command cmd and operated on a feeder of the table
Ran(cmd) == last.cmd = cmd /\ last.f # NoFeeder

\* C1: move() on a feeder whose status is Moving returns false and changes
\* nothing: status, position, remaining movement, target and current angle,
\* the pending timer and the PWM output are as before.
C1_MoveWhileMovingRejected ==
    ("move" \in last.calls /\ last.pre = FEEDER_MOVING)
        => (~last.ok /\ last.delta \cap Motion = {})

\* C1 happens: move() was called on a moving feeder
C1_Witness ==
    /\ "move" \in last.calls
    /\ last.pre = FEEDER_MOVING
    /\ ~last.ok

\* C2: a feeder that is Moving, left alone with its timers firing, gets back
\* to Idle.
C2_MoveCompletes ==
    \A f \in Feeders :
        (f \in DOMAIN feeders_ /\ feeders_[f].status_ = FEEDER_MOVING)
            ~> (f \in DOMAIN feeders_ /\ feeders_[f].status_ = FEEDER_IDLE)

\* C3: in runs of even moves the remaining movement never grows while the
\* feeder is Moving, a step takes 2 or 4 off it or leaves it, it never
\* wraps below zero, and it is 0 whenever the status becomes or stays Idle.
C3_RemainingMovement ==
    [][\A f \in Feeders :
          f \in DOMAIN feeders_ =>
            /\ feeders_'[f].movement_ \in 0 .. 255
            /\ feeders_[f].status_ = FEEDER_MOVING =>
                  /\ feeders_'[f].movement_ <= feeders_[f].movement_
                  /\ (feeders_[f].movement_ - feeders_'[f].movement_)
                        \in {0, 2, 4}
            /\ feeders_'[f].status_ = FEEDER_IDLE =>
                  feeders_'[f].movement_ = 0]_vars

\* C3 happens: a settle-time completion took the next step of a move that
\* had distance left, and a move longer than one step has come to its end
C3_Witness ==
    \E f \in ActiveFeeders :
        /\ last.cmd = H_UPDATE /\ last.f = f
        /\ last.pre = FEEDER_MOVING
        /\ "movement_" \in last.delta
        /\ feeders_[f].movement_ = 0
        /\ feeders_[f].position_ = POSITION_ADVANCED_FULL

\* the position changes the movement algorithm may make
AllowedMoves ==
    {<<POSITION_RETRACTED, POSITION_ADVANCED_FULL>>,
     <<POSITION_RETRACTED, POSITION_ADVANCED_HALF>>,
     <<POSITION_ADVANCED_HALF, POSITION_ADVANCED_FULL>>,
     <<POSITION_ADVANCED_FULL, POSITION_RETRACTED>>}

\* C4: in runs of even moves every change of position is Retracted to
\* FullAdvance, Retracted to HalfAdvance, HalfAdvance to FullAdvance or
\* FullAdvance to Retracted (so FullAdvance is always left through
\* Retracted), and a retracted feeder with 4mm or more to go advances fully:
\* it stops at HalfAdvance only when that uses up the distance.
C4_PositionCycle ==
    [][\A f \in Feeders :
          (f \in DOMAIN feeders_
           /\ feeders_'[f].position_ # feeders_[f].position_) =>
            /\ <<feeders_[f].position_, feeders_'[f].position_>>
                  \in AllowedMoves
            /\ (feeders_[f].position_ = POSITION_RETRACTED
                /\ feeders_'[f].position_ = POSITION_ADVANCED_HALF)
                  => feeders_'[f].movement_ = 0]_vars

\* C4 happens: within one move a feeder went FullAdvance, Retracted and
\* FullAdvance again, the last step taken by the settle-time completion
C4_Witness ==
    \E f \in ActiveFeeders :
        /\ last.cmd = H_UPDATE /\ last.f = f
        /\ last.pre = FEEDER_MOVING
        /\ "position_" \in last.delta
        /\ feeders_[f].position_ = POSITION_ADVANCED_FULL
        /\ feeders_[f].status_ = FEEDER_MOVING

\* C5: a timer completion delivered with operation_aborted does nothing: no
\* movement step, no servo command, no power-off, no change of status, no
\* timer armed.
C5_AbortedCompletionIgnored ==
    (last.cmd \in {H_UPDATE, H_SERVO} /\ last.err = EC_ABORTED)
        => last.delta = {}

\* C6: with auto-enable off, a feeder enable() has not run on since
\* construction or its last disable() has status Disabled.
C6_DisabledUntilEnabled ==
    \A f \in DOMAIN feeders_ :
        (~auto_enable /\ f \notin enabled)
            => feeders_[f].status_ = FEEDER_DISABLED

\* C7: M610 for a feeder whose status is Disabled is answered
\* "error Feeder has not been enabled!", does not call Feeder::move and
\* leaves the feeder as it was.
C7_MoveDisabledRejected ==
    (Ran(FEEDER_MOVE_CMD) /\ last.pre = FEEDER_DISABLED)
        => /\ last.reply = "error Feeder has not been enabled!\n"
           /\ "move" \notin last.calls
           /\ last.delta = {}

\* C7 happens: M610 was sent to a disabled feeder
C7_Witness ==
    /\ Ran(FEEDER_MOVE_CMD)
    /\ last.pre = FEEDER_DISABLED
    /\ feeders_[last.f].status_ = FEEDER_DISABLED

\* C8: M610 and M611 for a feeder whose status is Moving are answered
\* "error Feeder is busy!" without calling Feeder::move or
\* Feeder::post_pick, and leave position, remaining movement and timer alone.
C8_BusyRejected ==
    ((Ran(FEEDER_MOVE_CMD) \/ Ran(FEEDER_POST_PICK_CMD))
     /\ last.pre = FEEDER_MOVING)
        => /\ last.reply = "error Feeder is busy!\n"
           /\ last.calls \cap {"move", "post_pick"} = {}
           /\ last.delta \cap {"position_", "movement_", "timer_", "posted"}
                 = {}

\* feedback is active on feeder f: an expander is paired with it and
\* ignore_feedback is clear
FeedbackActive(f) ==
    feeders_[f].has_mcp /\ feeders_[f].config_.ignore_feedback = 0

\* C9: M610 for an enabled, idle feeder with active feedback whose last
\* reported level is not-tensioned is answered with the tension reason, does
\* not call Feeder::move and starts no movement.
C9_NotTensionedRejected ==
    (/\ Ran(FEEDER_MOVE_CMD)
     /\ last.pre = FEEDER_IDLE
     /\ FeedbackActive(last.f)
     /\ ~feeders_[last.f].tensioned_)
        => /\ last.reply =
                "error Tape cover does not appear to be tensioned correctly!\n"
           /\ "move" \notin last.calls
           /\ last.delta = {}
           /\ feeders_[last.f].status_ = FEEDER_IDLE

\* C9 happens: M610 was sent to an idle feeder whose sensor reports
\* not-tensioned
C9_Witness ==
    /\ Ran(FEEDER_MOVE_CMD)
    /\ last.pre = FEEDER_IDLE
    /\ FeedbackActive(last.f)
    /\ ~feeders_[last.f].tensioned_
    /\ ~last.ok

\* the feeder commands
FeederCommands ==
    {FEEDER_MOVE_CMD, FEEDER_POST_PICK_CMD, FEEDER_STATUS_CMD,
     FEEDER_ENABLE_CMD, FEEDER_DISABLE_CMD}

\* C10: a feeder command whose N is absent or not in 0 .. feeder_count - 1
\* is answered "error Missing/invalid feeder ID" and touches no feeder and no
\* slot past the end of the table; any other N operates on feeder N.
C10_FeederIdValidated ==
    last.cmd \in FeederCommands =>
        IF last.n \in 0 .. FeederCount - 1
        THEN last.f = last.n /\ ~last.oob
        ELSE /\ last.reply = "error Missing/invalid feeder ID\n"
             /\ last.f = NoFeeder
             /\ ~last.oob

\* C11: is_busy() is true exactly when the feeder is Moving (enabled and not
\* Idle), and false when it is Idle or Disabled
C11_BusyIffMoving ==
    \A f \in DOMAIN feeders_ :
        is_busy(feeders_[f]) <=> (feeders_[f].status_ = FEEDER_MOVING)

\* an M613 line that supplies A, B, C, F (even), U, V, W and Z, each within
\* the range of the configuration field it is stored in
FullySupplied(args) ==
    /\ {"A", "B", "C", "F", "U", "V", "W", "Z"} \subseteq DOMAIN args
    /\ \A l \in {"A", "B", "C", "F", "Z"} : args[l] \in 0 .. 255
    /\ \A l \in {"U", "V", "W"} : args[l] \in 0 .. 65535
    /\ args.F % 2 = 0

\* the status line of feeder fd with the supplied values in its A, B, C, F,
\* U, V, W and Z fields
Echo(fd, args) ==
    FEEDER_STATUS_CMD
    \o " N" \o ToString(fd.id_)
    \o " A" \o ToString(args.A)
    \o " B" \o ToString(args.B)
    \o " C" \o ToString(args.C)
    \o " D" \o ToString(fd.config_.movement_degrees)
    \o " F" \o ToString(args.F)
    \o " S" \o ToString(fd.config_.movement_interval_ms)
    \o " U" \o ToString(args.U)
    \o " V" \o ToString(args.V)
    \o " W" \o ToString(args.W)
    \o " X" \o ToString(fd.position_)
    \o " Y" \o ToString(fd.status_)
    \o " Z" \o ToString(args.Z)

\* C12: the reply of an M613 that supplies A, B, C, F, U, V, W and Z in range,
\* and the status line M612 then reports, carry exactly the supplied values
C12_SuppliedValuesReported ==
    \A f \in DOMAIN feeders_ :
        (Ran(FEEDER_CONFIGURE_CMD) /\ last.f = f /\ FullySupplied(last.args))
        => /\ last.reply = Reply(TRUE, Echo(feeders_[f], last.args))
           /\ status(feeders_[f]) = Echo(feeders_[f], last.args)

\* the configuration fields other than feed_length a configure() call with
\* arguments p provides, each with the value provided
Provided(p) ==
    {<<"servo_full_angle", p.advance_angle>> : x \in {p.advance_angle} \ {0}}
    \cup {<<"servo_half_angle", p.half_advance_angle>> :
             x \in {p.half_advance_angle} \ {0}}
    \cup {<<"servo_retract_angle", p.retract_angle>> :
             x \in {p.retract_angle} \ {0}}
    \cup {<<"settle_time_ms", p.settle_time_ms>> :
             x \in {p.settle_time_ms} \ {0}}
    \cup {<<"servo_min_pulse", p.min_pulse>> : x \in {p.min_pulse} \ {0}}
    \cup {<<"servo_max_pulse", p.max_pulse>> : x \in {p.max_pulse} \ {0}}
    \cup {<<"ignore_feedback", p.ignore_feedback>> :
             x \in {p.ignore_feedback} \ {0 - 1}}
    \cup {<<"movement_interval_ms", p.movement_speed_ms>> :
             x \in {p.movement_speed_ms} \ {0 - 1}}
    \cup {<<"movement_degrees", p.movement_degrees>> :
             x \in {p.movement_degrees} \ {0}}

\* C13: a configure() call with an odd feed_length leaves the stored
\* feed_length as it was, sets every other field the call provides to the
\* value provided, and writes the resulting configuration to storage
C13_OddFeedLengthOthersApplied ==
    [][\A f \in Feeders :
          (/\ f \in DOMAIN feeders_
           /\ last'.cmd = "configure" /\ last'.f = f
           /\ last'.args.feed_length % 2 = 1)
          => /\ feeders_'[f].config_.feed_length
                    = feeders_[f].config_.feed_length
             /\ \A fv \in Provided(last'.args) :
                    /\ feeders_'[f].config_[fv[1]] = fv[2]
                    /\ nvs'[f] = Blob(feeders_'[f].config_)
                    /\ "nvs_set_blob" \in last'.calls]_vars

\* C14: an M613 line that addresses a feeder and has an odd F is answered
\* with an error reply that names the reason, and changes nothing of any
\* feeder's configuration, neither in memory nor in storage
C14_OddFRejected ==
    [][(/\ last'.cmd = FEEDER_CONFIGURE_CMD
        /\ last'.n \in DOMAIN feeders_
        /\ "F" \in DOMAIN last'.args
        /\ last'.args.F % 2 = 1)
       => /\ last'.reply = Reply(FALSE, OddFeedLength)
          /\ last'.reply = "error Feed length must be a multiple of 2.\n"
          /\ \A f \in DOMAIN feeders_ :
                feeders_'[f].config_ = feeders_[f].config_
          /\ nvs' = nvs]_vars

\* an M613 with an odd F and a settle time was refused, and feeder 0 does not
\* have that settle time
C14_Witness ==
    /\ last.cmd = FEEDER_CONFIGURE_CMD
    /\ {"F", "U"} \subseteq DOMAIN last.args
    /\ last.args.F % 2 = 1
    /\ last.n \in DOMAIN feeders_
    /\ ~last.ok
    /\ feeders_[last.n].config_.settle_time_ms # last.args.U
    /\ nvs[last.n].config.settle_time_ms # last.args.U

\* C15: whatever blobs were stored at power-up and whatever M613 lines and
\* configure() calls followed, the feed_length of every feeder is even and
\* not zero
C15_FeedLengthEven ==
    \A f \in DOMAIN feeders_ :
        /\ feeders_[f].config_.feed_length % 2 = 0
        /\ feeders_[f].config_.feed_length # 0

\* an M613 whose F lies beyond the range of uint8_t was accepted, or a
\* configure() call was given an odd feed_length
C15_Witness ==
    \/ /\ Ran(FEEDER_CONFIGURE_CMD) /\ last.ok
       /\ "F" \in DOMAIN last.args /\ last.args.F > 255
    \/ /\ last.cmd = "configure"
       /\ last.args.feed_length % 2 = 1

\* a configure() call with arguments p accepts at least one field
Accepts(p) ==
    \/ p.advance_angle # 0
    \/ p.half_advance_angle # 0
    \/ p.retract_angle # 0
    \/ (p.feed_length # 0 /\ p.feed_length % 2 = 0)
    \/ p.settle_time_ms # 0
    \/ p.min_pulse # 0
    \/ p.ignore_feedback >= 0
    \/ p.movement_speed_ms >= 0
    \/ p.movement_degrees # 0

\* C16: after a configure() call that accepted a field the blob under the
\* feeder's key is the configuration in memory; a call that accepted none
\* wrote nothing.  The same for the call an M613 line makes: it either writes
\* the configuration it leaves, or leaves configuration and storage as they
\* were
C16_PersistedIffAccepted ==
    \A f \in DOMAIN feeders_ :
        /\ (last.cmd = "configure" /\ last.f = f)
           => IF Accepts(last.args)
              THEN /\ "nvs_set_blob" \in last.calls
                   /\ nvs[f] = Blob(feeders_[f].config_)
              ELSE /\ "nvs_set_blob" \notin last.calls
                   /\ "nvs" \notin last.delta
        /\ (Ran(FEEDER_CONFIGURE_CMD) /\ last.f = f)
           => IF "nvs_set_blob" \in last.calls
              THEN nvs[f] = Blob(feeders_[f].config_)
              ELSE last.delta = {}

\* a configure() call changed the configuration and the change is in storage
C16_Witness ==
    /\ last.cmd = "configure"
    /\ Accepts(last.args)
    /\ "config_" \in last.delta
    /\ nvs[last.f] = Blob(feeders_[last.f].config_)

\* C17: after a start of the controller, a feeder whose key held a blob of
\* exactly configsize_ bytes has that blob as its configuration, field for
\* field, and storage still holds it; a feeder whose key held nothing or a
\* blob of another size has the default set, and storage holds the default set
C17_LoadOrDefault ==
    \A f \in DOMAIN feeders_ :
        last.cmd = "restart"
        => IF last.args[f].size = configsize_
           THEN /\ feeders_[f].config_ = last.args[f].config
                /\ nvs[f] = last.args[f]
           ELSE /\ feeders_[f].config_ = DefaultConfig(feeders_[f].has_mcp)
                /\ nvs[f] = Blob(DefaultConfig(feeders_[f].has_mcp))

\* C18: is_tensioned() is true for every feeder whose ignore_feedback is set
\* or that has no MCP23017 paired, whatever the sensor levels and the
\* configure calls so far
C18_TensionedWhenIgnored ==
    \A f \in DOMAIN feeders_ :
        (feeders_[f].config_.ignore_feedback # 0 \/ ~feeders_[f].has_mcp)
        => is_tensioned(feeders_[f])

\* feeder 0 was told of its sensor going low, and M613 then set its
\* ignore_feedback
C18_Witness ==
    /\ 0 \in DOMAIN feeders_
    /\ Ran(FEEDER_CONFIGURE_CMD)
    /\ "Z" \in DOMAIN last.args
    /\ feeders_[0].has_mcp
    /\ feeders_[0].config_.ignore_feedback # 0
    /\ ~feeders_[0].tensioned_
    /\ ~mcp23017_[0].state_[0]

\* C19: for every feeder that has an MCP23017 paired and ignore_feedback
\* clear, is_tensioned() is the level of its channel in the most recent poll
\* of the chip
C19_TensionedIsPolledLevel ==
    \A f \in DOMAIN feeders_ :
        (feeders_[f].has_mcp /\ feeders_[f].config_.ignore_feedback = 0)
        => (is_tensioned(feeders_[f])
               <=> mcp23017_[f \div NUM_CHANNELS].state_[f % NUM_CHANNELS])

\* C20: when the sensor of an enabled feeder goes to not-tensioned the
\* manual-advance flag is set and no move starts; when it comes back to
\* tensioned on an enabled, Idle feeder whose flag is set, exactly the move
\* M610 would start for D = feed_length starts, and the flag is cleared; a
\* tensioned level that finds the flag clear starts no move
C20_FeedbackAdvance ==
    [][\A f \in Feeders :
          (/\ f \in DOMAIN feeders_
           /\ mcp23017_' # mcp23017_
           /\ last'.cmd = "feedback_state_changed" /\ last'.f = f
           /\ is_enabled(feeders_[f]))
          => LET level == feeders_'[f].tensioned_
                 m == move(Ctx(f), feeders_[f].config_.feed_length)
             IN /\ level = mcp23017_'[f \div NUM_CHANNELS].state_[f % NUM_CHANNELS]
                /\ ~level
                   => /\ feeders_'[f].advance_
                      /\ "move" \notin last'.calls
                      /\ last'.delta \cap Motion = {}
                /\ (level /\ ~feeders_[f].advance_)
                   => /\ ~feeders_'[f].advance_
                      /\ "move" \notin last'.calls
                      /\ last'.delta \cap Motion = {}
                /\ (level /\ feeders_[f].advance_
                    /\ feeders_[f].status_ = FEEDER_IDLE)
                   => /\ last'.calls = {"move"} /\ last'.ok /\ m.ok
                      /\ feeders_'[f] = [m.X.fd EXCEPT !.tensioned_ = TRUE,
                                                       !.advance_ = FALSE]
                      /\ feeders_'[f].status_ = FEEDER_MOVING
                      /\ posted'[f] = m.X.q]_vars

\* the sensor of an Idle feeder came back to tensioned with the flag set: the
\* move was started and the flag is clear
C20_Witness ==
    /\ last.cmd = "feedback_state_changed"
    /\ last.f \in DOMAIN feeders_
    /\ last.pre = FEEDER_IDLE
    /\ last.calls = {"move"} /\ last.ok
    /\ "advance_" \in last.delta
    /\ ~feeders_[last.f].advance_
    /\ feeders_[last.f].tensioned_
    /\ feeders_[last.f].status_ = FEEDER_MOVING
    /\ feeders_[last.f].position_ = POSITION_ADVANCED_FULL

\* C21: a sensor change reported while the feeder is Moving leaves the
\* manual-advance flag clear and starts no move
C21_BusyFeedbackClearsFlag ==
    [][\A f \in Feeders :
          (/\ f \in DOMAIN feeders_
           /\ mcp23017_' # mcp23017_
           /\ last'.cmd = "feedback_state_changed" /\ last'.f = f
           /\ feeders_[f].status_ = FEEDER_MOVING)
          => /\ ~feeders_'[f].advance_
             /\ "move" \notin last'.calls]_vars


\* C22: post_pick() on a Disabled feeder returns success and changes nothing;
\* on an enabled feeder that is not Retracted it retracts (position
\* Retracted, status Moving); on an enabled feeder already Retracted it
\* returns success and changes nothing
C22_PostPick ==
    \A f \in DOMAIN feeders_ :
        LET r == post_pick(Ctx(f))
        IN  /\ r.ok
            /\ IF is_enabled(feeders_[f])
                  /\ feeders_[f].position_ # POSITION_RETRACTED
               THEN /\ r.X.fd.position_ = POSITION_RETRACTED
                    /\ r.X.fd.status_ = FEEDER_MOVING
                    /\ r.X = retract_locked(Ctx(f))
               ELSE r.X = Ctx(f)


\* C23: PCA9685::off programs the channel to full-off (full_off set, full_on
\* clear) for every channel 0..15: a register pair that holds what off()
\* writes is never full-on
C23_OffIsFullOff ==
    \A d \in DOMAIN pca9685_ :
        \A c \in 0 .. NUM_CHANNELS - 1 :
            pca9685_[d][c] = off(c)
                => /\ pca9685_[d][c].full_off = 1
                   /\ pca9685_[d][c].full_on = 0


\* C24: every read and write of a feeder's status, position, remaining
\* movement, tensioned flag, advance flag and configuration made by a step of
\* a public operation, timer continuation or feedback callback happens while
\* the thread holds that feeder's lock
C24_AccessUnderLock ==
    [][\A t \in 1 .. MaxWorkers :
          (/\ pc[t] # Returned
           /\ pc'[t] # pc[t]
           /\ StepOf(pc[t], Ctx(pc[t].f)).kind = "access")
          => mux_[pc[t].f] = t]_vars

C26_HandlerReturns ==
    \A f \in Feeders :
        (f \in DOMAIN waiters /\ waiters[f] > 0)
            ~> (f \in DOMAIN waiters /\ waiters[f] = 0)


\* C27: whatever number of PCA9685 was detected, there are
\* min(MAX_FEEDER_COUNT, drivers x 16) feeders, feeder i uses driver i / 16
\* and channel i % 16, and no two feeders share a (driver, channel) pair
C27_FeederChannels ==
    /\ FeederCount = Min(MAX_FEEDER_COUNT,
                         Cardinality(DOMAIN pca9685_) * NUM_CHANNELS)
    /\ DOMAIN feeders_ = 0 .. FeederCount - 1
    /\ \A i \in DOMAIN feeders_ :
        /\ feeders_[i].pca9685_ = i \div NUM_CHANNELS
        /\ feeders_[i].pca9685_ \in DOMAIN pca9685_
        /\ feeders_[i].channel_ = i % NUM_CHANNELS
        /\ \A j \in DOMAIN feeders_ :
            (/\ feeders_[j].pca9685_ = feeders_[i].pca9685_
             /\ feeders_[j].channel_ = feeders_[i].channel_) => j = i

\* C27 happens: a controller with eight PCA9685 has started again
C27_Witness ==
    /\ Cardinality(DOMAIN pca9685_) = MAX_PCA9685_COUNT
    /\ FeederCount = MAX_FEEDER_COUNT
    /\ last.cmd = "restart"


C29_UnregisteredByName ==
    [][(/\ last' # last
        /\ last'.cmd = "process_line"
        /\ last'.ok
        /\ last'.args # <<>>)
       => LET RECURSIVE string(_)
              string(str) ==
                  IF str = <<>> THEN "" ELSE str[1] \o string(Tail(str))
              name == string(last'.args)
          IN name \notin dispatcher_ =>
                /\ UNCHANGED <<feeders_, posted, pca9685_, mcp23017_, nvs>>
                /\ IF last'.args[1] = "G"
                      \/ name \in {"M82", "M204", "M400"}
                   THEN last'.reply = "ok ; not implemented\n"
                   ELSE name # "M115" =>
                          last'.reply = "error invalid command token: "
                                            \o name \o "\n"]_vars

\* C29 happens: M999 has been answered and a G code after it discarded
C29_Witness ==
    /\ client.sent = <<"error invalid command token: M999\n",
                       "ok ; not implemented\n">>
    /\ last.cmd = "process_line"
    /\ last.args = <<"G", "2", "8">>

\* C30: on an open connection the replies sent come to be, and stay, one per
\* non-blank line the peer sent, in the order of the lines, with the
\* connection reading again
C30_EveryLineAnswered ==
    <>[](LET nonblank == SelectSeq(client.lines,
                                   LAMBDA l : string_trim(l) # <<>>)
         IN /\ client.reading
            /\ ~client.fault
            /\ Len(client.sent) = Len(nonblank)
            /\ \A k \in 1 .. Len(client.sent) :
                 client.sent[k] \in
                    {o.reply : o \in process_line(string_trim(nonblank[k]))})

\* C31: a feeder command with an argument whose value is not a decimal
\* integer is answered with an error reply, the worker thread that ran the
\* handler keeps serving, and no feeder changes
C31_BadArgumentRejected ==
    [][LET digits == {"0", "1", "2", "3", "4", "5", "6", "7", "8", "9"}
           Decimal(str) ==
               LET body == IF str # <<>> /\ str[1] \in {"+", "-"}
                           THEN Tail(str) ELSE str
               IN /\ body # <<>>
                  /\ \A k \in 1 .. Len(body) : body[k] \in digits
           letters ==
               CASE last'.cmd = FEEDER_MOVE_CMD -> {"D", "N"}
                 [] last'.cmd = FEEDER_CONFIGURE_CMD ->
                       {"N", "F", "A", "B", "C", "D", "S", "U", "V", "W", "Z"}
                 [] OTHER -> {"N"}
       IN (/\ last'.cmd \in dispatcher_
           /\ \E k \in 1 .. Len(last'.args) :
                /\ last'.args[k][1] \in letters
                /\ ~Decimal(Tail(last'.args[k])))
          => /\ ~last'.ok
             /\ last'.reply # NoReply
             /\ pc' = pc
             /\ UNCHANGED <<feeders_, posted, pca9685_, nvs>>]_vars


\* C32: after M613 N{f} Z1 the feeder checks its tension sensor
\* (is_tensioned() is the flag the sensor callback keeps), and after
\* M613 N{f} Z0 the check is off (is_tensioned() is true whatever the flag)
C32_ZMeansFeedbackEnabled ==
    (/\ Ran(FEEDER_CONFIGURE_CMD)
     /\ last.ok
     /\ "Z" \in DOMAIN last.args)
    => LET fd == feeders_[last.f]
       IN IF last.args.Z = 1
          THEN is_tensioned(fd) = fd.tensioned_
          ELSE is_tensioned(fd)


\* C33: the identifiers of the feeder slots are pairwise distinct, a restart
\* keeps them, no two feeders have the same storage key, and configure() on
\* one feeder leaves what is stored under the key of every other feeder
C33_OwnKeyPerFeeder ==
    [][/\ \A i \in DOMAIN mgr_cfg'.feeder_uuid :
            \A j \in DOMAIN mgr_cfg'.feeder_uuid :
                i # j => mgr_cfg'.feeder_uuid[i] # mgr_cfg'.feeder_uuid[j]
       /\ mgr_cfg' = mgr_cfg
       /\ \A i \in DOMAIN feeders_' :
            \A j \in DOMAIN feeders_' :
                i # j => feeders_'[i].uuid_ # feeders_'[j].uuid_
       /\ last'.cmd = "configure" =>
            \A j \in DOMAIN nvs : j # last'.f => nvs'[j] = nvs[j]]_vars


\* C34: one movement step as a function of (position, remaining): Retracted
\* with remaining >= 4 gives FullAdvance, remaining - 4 and the full angle
\* as target; Retracted with 2 <= remaining < 4 gives HalfAdvance,
\* remaining - 2 and the half angle; HalfAdvance with remaining >= 2 gives
\* FullAdvance, remaining - 2 and the full angle; FullAdvance gives Retracted,
\* remaining unchanged and the retract angle; every other case changes
\* nothing and commands no angle
C34_MoveStep ==
    \A f \in Feeders :
        f \in DOMAIN feeders_ =>
        \A position \in {POSITION_UNKNOWN, POSITION_ADVANCED_FULL,
                          POSITION_ADVANCED_HALF, POSITION_RETRACTED},
           remaining \in (0 .. 2 * MaxHalfSteps) \cup {255} :
            LET X == [Ctx(f) EXCEPT !.fd.position_ = position,
                                    !.fd.movement_ = remaining]
                Y == move_locked(X)
                c == X.fd.config_
                Step(p, r, angle) ==
                    /\ Y.fd.position_ = p
                    /\ Y.fd.movement_ = r
                    /\ Y.fd.targetDegrees_ = angle
                    /\ Y.fd.timer_ # NoTimer
            IN CASE position = POSITION_RETRACTED /\ remaining >= 4 ->
                        Step(POSITION_ADVANCED_FULL, remaining - 4,
                             c.servo_full_angle)
                 [] position = POSITION_RETRACTED /\ remaining >= 2
                         /\ remaining < 4 ->
                        Step(POSITION_ADVANCED_HALF, remaining - 2,
                             c.servo_half_angle)
                 [] position = POSITION_ADVANCED_HALF /\ remaining >= 2 ->
                        Step(POSITION_ADVANCED_FULL, remaining - 2,
                             c.servo_full_angle)
                 [] position = POSITION_ADVANCED_FULL ->
                        Step(POSITION_RETRACTED, remaining,
                             c.servo_retract_angle)
                 [] OTHER -> Y = X

\* C34 happens: the continuation of a move of 3 mm from the half advanced
\* position has found the feeder fully advanced with 1 mm left and has
\* started its retraction
C34_Witness ==
    /\ last.cmd = H_UPDATE
    /\ last.f \in DOMAIN feeders_
    /\ "position_" \in last.delta
    /\ feeders_[last.f].position_ = POSITION_RETRACTED
    /\ feeders_[last.f].movement_ = 1
    /\ feeders_[last.f].status_ = FEEDER_MOVING
    /\ feeders_[last.f].targetDegrees_
         = feeders_[last.f].config_.servo_retract_angle


\* C35: with movement_degrees > 0, an angle commanded on the way to the
\* target lies between the angle commanded before it and the target, is
\* movement_degrees away from the one before it unless it is the target
\* itself, and is closer to the target than the one before it (so the target
\* is met after finitely many steps, without passing it or wrapping); the
\* settle timer (the wait for update) is armed only at the target angle
C35_ClampedStepping ==
    [][\A f \in Feeders :
          (f \in DOMAIN feeders_ /\ feeders_[f].config_.movement_degrees > 0)
          => LET previous == feeders_[f].currentDegrees_
                 current == feeders_'[f].currentDegrees_
                 target == feeders_'[f].targetDegrees_
                 Abs(v) == IF v < 0 THEN 0 - v ELSE v
             IN /\ feeders_'[f].timer_ = H_UPDATE => current = target
                /\ (feeders_'[f].timer_ # feeders_[f].timer_
                    /\ feeders_'[f].timer_ # NoTimer)
                   => /\ Min(previous, target) <= current
                      /\ current <= Max(previous, target)
                      /\ current # target =>
                            /\ Abs(current - previous)
                                 = feeders_[f].config_.movement_degrees
                            /\ feeders_'[f].timer_ = H_SERVO
                      /\ previous # target =>
                            Abs(target - current) < Abs(target - previous)]_vars

\* C35 happens: a step chain upwards has commanded an angle from which one
\* more step of movement_degrees would pass 255
C35_Witness ==
    /\ last.cmd = H_SERVO
    /\ last.f \in DOMAIN feeders_
    /\ feeders_[last.f].timer_ = H_SERVO
    /\ feeders_[last.f].currentDegrees_ < feeders_[last.f].targetDegrees_
    /\ feeders_[last.f].currentDegrees_
         + feeders_[last.f].config_.movement_degrees > 255



\* C36: in a poll of a feedback chip whose read succeeded, each of the inputs
\* 0..15 has its callback invoked once when its level differs from the
\* snapshot and a callback is registered for it, and not at all otherwise;
\* the callback is given the level read; afterwards the snapshot is the
\* levels read.
C36_ChangedInputsCalledOnce ==
    [][(last' # last /\ last'.cmd = "MCP23017::update" /\ last'.ok) =>
         LET e == last'.n
             calls == last'.calls
         IN /\ \A c \in 0 .. NUM_CHANNELS - 1 :
                 Cardinality({k \in 1 .. Len(calls) : calls[k].channel = c})
                     = IF /\ last'.args[c] # mcp23017_[e].state_[c]
                          /\ c \in mcp23017_[e].callbacks_
                       THEN 1 ELSE 0
            /\ \A k \in 1 .. Len(calls) :
                 /\ calls[k].state = last'.args[calls[k].channel]
                 /\ feeders_'[(e * NUM_CHANNELS) + calls[k].channel].tensioned_
                        = calls[k].state
            /\ mcp23017_'[e].state_ = last'.args
            /\ mcp23017_'[e].callbacks_ = mcp23017_[e].callbacks_]_vars

\* a poll that read both inputs it can find changed, one of them with a
\* callback, which was invoked, and the other without
C36_Witness ==
    /\ last.cmd = "MCP23017::update"
    /\ last.ok
    /\ Len(last.calls) = 1
    /\ \E c \in 0 .. NUM_CHANNELS - 1 :
         /\ c \notin mcp23017_[last.n].callbacks_
         /\ c % 8 < MaxPolled
         /\ last.args[c] # last.args[last.calls[1].channel]

\* C37: a poll of a feedback chip whose read failed leaves the snapshot as it
\* was and invokes no callback: no feeder changes and nothing is posted.
C37_FailedReadKeepsSnapshot ==
    [][(last' # last /\ last'.cmd = "MCP23017::update" /\ ~last'.ok) =>
         /\ mcp23017_' = mcp23017_
         /\ last'.calls = <<>>
         /\ feeders_' = feeders_
         /\ posted' = posted
         /\ pca9685_' = pca9685_]_vars


\* C38: a feeder that disable() has left Disabled gets no servo angle: while
\* its status is Disabled the registers of its channel keep their value.
\* (In a build with AUTO_ENABLE_FEEDERS every feeder is enabled by the
\* constructor, so that Disabled is the work of disable().)
C38_NoAngleWhileDisabled ==
    [][\A f \in DOMAIN feeders_ :
         (/\ auto_enable
          /\ feeders_[f].status_ = FEEDER_DISABLED
          /\ feeders_'[f].status_ = FEEDER_DISABLED) =>
             pca9685_'[f \div NUM_CHANNELS][f % NUM_CHANNELS]
                 = pca9685_[f \div NUM_CHANNELS][f % NUM_CHANNELS]]_vars


\* C39: a feeder whose status is Moving while its lock is free has a step or
\* the settle time pending: its timer is armed, or a completion of it is
\* posted and waits for a worker thread.
C39_MovingHasContinuation ==
    \A f \in DOMAIN feeders_ :
        (feeders_[f].status_ = FEEDER_MOVING /\ mux_[f] = 0) =>
            \/ feeders_[f].timer_ # NoTimer
            \/ \E c \in Completions : posted[f][c] > 0


\* C40: move() tests and sets Moving in one step under the lock: a thread
\* inside move() that changes anything of the feeder holds its lock, found
\* the feeder not Moving, and leaves it Moving with the distance taken; a
\* call that finds the feeder Moving changes nothing.
C40_MoveTestAndSet ==
    [][\A t \in DOMAIN pc :
         LET f == pc[t].f
         IN (/\ pc[t].op = "move"
             /\ pc'[t] # pc[t]
             /\ \/ feeders_'[f] # feeders_[f]
                \/ posted'[f] # posted[f]
                \/ pca9685_' # pca9685_) =>
                /\ mux_[f] = t
                /\ feeders_[f].status_ # FEEDER_MOVING
                /\ feeders_'[f].status_ = FEEDER_MOVING
                /\ feeders_'[f] = move(Ctx(f), pc[t].arg).X.fd
                /\ move(Ctx(f), pc[t].arg).ok]_vars

\* two threads are inside move() of one feeder: one has run its body and
\* still holds the lock, the feeder is Moving forward, the other waits for
\* the lock
C40_Witness ==
    \E t \in DOMAIN pc, u \in DOMAIN pc :
        /\ t # u
        /\ pc[t].op = "move" /\ pc[u].op = "move"
        /\ pc[t].f = pc[u].f
        /\ pc[t].at = 3 /\ pc[u].at = 1
        /\ mux_[pc[t].f] = t
        /\ feeders_[pc[t].f].status_ = FEEDER_MOVING
        /\ feeders_[pc[t].f].position_ = POSITION_ADVANCED_FULL

====
